---------------------------- MODULE Spec2Model ----------------------------
(***************************************************************************)
(* A model of the organic-typography layout core:                          *)
(*   SpatialIndex  (js/SpatialIndex.js)   grid index + LRU query cache     *)
(*   SemanticField (js/SemanticField.js)  association graph, collocation   *)
(*                                        table, reading history           *)
(*   OrganicLayout (js/OrganicLayout.js)  the growth engine                *)
(*                                                                         *)
(* Lengths are fixed-point numbers in tenths of a canvas unit: 104 is the  *)
(* JavaScript number 10.4.  Distances are compared through their squares.  *)
(***************************************************************************)
EXTENDS Integers, Sequences, FiniteSets, TLC

VARIABLES
    grid,               \* SpatialIndex.grid: cell key -> list of items
    itemCount,          \* SpatialIndex.itemCount
    queryCache,         \* SpatialIndex.queryCache: cache key -> result object
    cacheAccessOrder,   \* SpatialIndex.cacheAccessOrder: list of cache keys
    ret,                \* the last call and what it returned
    lastRet,            \* cache key -> the array the last query for that key
                        \* returned since the last insert / removing remove
    lru,                \* the cached keys, least recently used first
    semanticGraph,      \* SemanticField.semanticGraph: list of root entries
    collocationMatrix,  \* SemanticField.collocationMatrix: list of entries
    readingHistory,     \* SemanticField.readingHistory
    cleanupCounter,     \* SemanticField.cleanupCounter
    clock,              \* the calls made to the field so far (Date.now())
    nodes,              \* OrganicLayout.nodes
    connections,        \* OrganicLayout.connections
    growthQueue,        \* OrganicLayout.growthQueue
    generation,         \* OrganicLayout.generation
    isGrowing,          \* OrganicLayout.isGrowing
    energyDecay,        \* OrganicLayout.params.energyDecay, in thousandths
    created,            \* the node objects made so far
    branches,           \* the branch draws that came out true so far
    semanticGravity,        \* OrganicLayout.params.semanticGravity, in thousandths
    interferenceAmplitude,  \* OrganicLayout.params.interferenceAmplitude, likewise
    readingTrajectory,      \* OrganicLayout.readingTrajectory
    collocationFields,      \* OrganicLayout.collocationFields
    emergentPatterns,       \* OrganicLayout.emergentPatterns
    selfReflectionHistory   \* OrganicLayout.selfReflectionHistory

ixvars == <<grid, itemCount, queryCache, cacheAccessOrder>>
cachevars == <<lastRet, lru>>
fieldvars == <<semanticGraph, collocationMatrix, readingHistory, cleanupCounter, clock>>
auxvars == <<semanticGravity, interferenceAmplitude, readingTrajectory,
             collocationFields, emergentPatterns, selfReflectionHistory>>
enginevars == <<nodes, connections, growthQueue, generation, isGrowing,
                energyDecay, created, branches, auxvars>>
vars == <<ixvars, ret, cachevars, fieldvars, enginevars>>

None == "none"

Max(a, b) == IF a >= b THEN a ELSE b
Min(a, b) == IF a <= b THEN a ELSE b
Range(s) == {s[i] : i \in 1..Len(s)}

\* the items of a list whose id is not `id`, in order
RECURSIVE WithoutId(_, _)
WithoutId(s, id) ==
    IF s = <<>> THEN <<>>
    ELSE (IF Head(s).id # id THEN <<Head(s)>> ELSE <<>>) \o WithoutId(Tail(s), id)

(***************************************************************************)
(* SpatialIndex                                                            *)
(***************************************************************************)

\* new SpatialIndex(800, 600, 50): the canvas the engine and scenario A use
width == 8000
height == 6000
cellSize == 500

\* the cap of the LRU cache; the code's value is 100, the model runs the
\* same code with a small cap so that the cache fills within the bounds
maxCacheSize == 3

\* Math.floor(a / b) and Math.ceil(a / b) for b > 0
FloorDiv(a, b) == a \div b
CeilDiv(a, b) == -((-a) \div b)

\* Math.round of a number given in tenths (halves round towards +Infinity)
Round(a) == (a + 5) \div 10

gridWidth == CeilDiv(width, cellSize)
gridHeight == CeilDiv(height, cellSize)

getGridKey(x, y) ==
    <<Max(0, Min(gridWidth - 1, FloorDiv(x, cellSize))),
      Max(0, Min(gridHeight - 1, FloorDiv(y, cellSize)))>>

\* dist <= radius, with dist = Math.sqrt(dx * dx + dy * dy)
Dist2(x1, y1, x2, y2) == (x1 - x2) * (x1 - x2) + (y1 - y2) * (y1 - y2)
WithinRadius(it, x, y, radius) == Dist2(it.x, it.y, x, y) <= radius * radius

\* the index as one value, so that the engine can apply the same operators
IndexState(g, n, qc, ao) ==
    [grid |-> g, itemCount |-> n, queryCache |-> qc, cacheAccessOrder |-> ao]

EmptyMap == [k \in {} |-> None]
EmptyIndex == IndexState(EmptyMap, 0, EmptyMap, <<>>)

\* the places <<cell, position in the cell's list>> that hold an item
Slots(g) == UNION {{<<c, i>> : i \in 1..Len(g[c])} : c \in DOMAIN g}
AllItems(g) == {g[sl[1]][sl[2]] : sl \in Slots(g)}

clearQueryCache(s) == [s EXCEPT !.queryCache = EmptyMap, !.cacheAccessOrder = <<>>]

\* An id is a pair <<kind, n>>: <<"int", n>> is the number n and
\* <<"node", n>> the string `node_${n}`.  The number 0 is the id for which
\* `!id` holds.
IntId(n) == <<"int", n>>
Falsy(id) == id = IntId(0)

findItemById(g, id) ==
    /\ ~Falsy(id)
    /\ \E c \in DOMAIN g : \E i \in 1..Len(g[c]) : g[c][i].id = id

\* remove(id): every item with that id leaves its cell, emptied cells are
\* deleted, the cache is cleared when something was removed
remove(s, id) ==
    LET g == s.grid
        matches == {sl \in Slots(g) : g[sl[1]][sl[2]].id = id}
        left == {c \in DOMAIN g : WithoutId(g[c], id) # <<>>}
        g2 == [c \in left |-> WithoutId(g[c], id)]
        s2 == [s EXCEPT !.grid = g2,
                        !.itemCount = Max(0, s.itemCount - Cardinality(matches))]
    IN  IF Falsy(id) \/ matches = {} THEN [s |-> s, ret |-> FALSE]
        ELSE [s |-> clearQueryCache(s2), ret |-> TRUE]

\* insert(item) of a valid item: upsert by id, append to the cell, clear the cache
insert(s, item) ==
    LET s1 == IF findItemById(s.grid, item.id) THEN remove(s, item.id).s ELSE s
        key == getGridKey(item.x, item.y)
        old == IF key \in DOMAIN s1.grid THEN s1.grid[key] ELSE <<>>
        g2 == [c \in DOMAIN s1.grid \cup {key} |->
                  IF c = key THEN Append(old, item) ELSE s1.grid[c]]
    IN  clearQueryCache([s1 EXCEPT !.grid = g2, !.itemCount = s1.itemCount + 1])

\* What a caller may hand to insert: `kind` is "missing" for no item,
\* "noPosition" for an item without position, "notObject" for a position
\* that is no object, "nonNumeric" and "NaN" for a coordinate that is no
\* number or NaN, and "valid" for an item with numeric coordinates x and y.
Argument(kind, id, x, y) == [kind |-> kind, id |-> id, x |-> x, y |-> y]
ArgumentItem(arg) == [id |-> arg.id, x |-> arg.x, y |-> arg.y]

\* insert as it would be if it removed the indexed item of the same id
\* before it validated the position
insert_RemovesFirst(s, arg) ==
    IF arg.kind = "missing" THEN [s |-> s, ret |-> FALSE]
    ELSE IF arg.kind # "valid"
         THEN [s |-> IF findItemById(s.grid, arg.id) THEN remove(s, arg.id).s ELSE s,
               ret |-> FALSE]
         ELSE [s |-> insert(s, ArgumentItem(arg)), ret |-> TRUE]

\* insert(item) with its validation: an invalid argument returns false
\* before anything is touched
insert_checked(s, arg) ==
    IF arg.kind # "valid" THEN [s |-> s, ret |-> FALSE]
    ELSE [s |-> insert(s, ArgumentItem(arg)), ret |-> TRUE]

\* the items of a cell's list within `radius` of (x, y), in list order
RECURSIVE CellMatches(_, _, _, _)
CellMatches(items, x, y, radius) ==
    IF items = <<>> THEN <<>>
    ELSE (IF WithinRadius(Head(items), x, y, radius) THEN <<Head(items)>> ELSE <<>>)
         \o CellMatches(Tail(items), x, y, radius)

\* the inner loop of performQuery: cells (gx, gy..maxY)
RECURSIVE ScanColumn(_, _, _, _, _, _, _)
ScanColumn(g, gx, gy, maxY, x, y, radius) ==
    IF gy > maxY THEN <<>>
    ELSE (IF <<gx, gy>> \in DOMAIN g THEN CellMatches(g[<<gx, gy>>], x, y, radius) ELSE <<>>)
         \o ScanColumn(g, gx, gy + 1, maxY, x, y, radius)

\* the outer loop of performQuery: columns gx..maxX
RECURSIVE ScanColumns(_, _, _, _, _, _, _, _)
ScanColumns(g, gx, maxX, minY, maxY, x, y, radius) ==
    IF gx > maxX THEN <<>>
    ELSE ScanColumn(g, gx, minY, maxY, x, y, radius)
         \o ScanColumns(g, gx + 1, maxX, minY, maxY, x, y, radius)

performQuery(g, x, y, radius) ==
    LET gridRadius == CeilDiv(radius, cellSize)
        centerX == FloorDiv(x, cellSize)
        centerY == FloorDiv(y, cellSize)
        minX == Max(0, centerX - gridRadius)
        maxX == Min(gridWidth - 1, centerX + gridRadius)
        minY == Max(0, centerY - gridRadius)
        maxY == Min(gridHeight - 1, centerY + gridRadius)
    IN  ScanColumns(g, minX, maxX, minY, maxY, x, y, radius)

\* `${Math.round(x)},${Math.round(y)},${Math.round(radius)}`
CacheKey(x, y, radius) == <<Round(x), Round(y), Round(radius)>>

\* Array.prototype.indexOf + splice(index, 1): drop the first occurrence
RECURSIVE RemoveFirst(_, _)
RemoveFirst(s, k) ==
    IF s = <<>> THEN <<>>
    ELSE IF Head(s) = k THEN Tail(s) ELSE <<Head(s)>> \o RemoveFirst(Tail(s), k)

updateCacheAccess(s, cacheKey) ==
    [s EXCEPT !.cacheAccessOrder = Append(RemoveFirst(@, cacheKey), cacheKey)]

MapRemove(m, k) == [j \in DOMAIN m \ {k} |-> m[j]]
MapPut(m, k, v) == [j \in DOMAIN m \cup {k} |-> IF j = k THEN v ELSE m[j]]

\* addToCache: at the cap, shift the head of the access order and delete
\* that key from the cache; then store the result and push the key
addToCache(s, cacheKey, results) ==
    LET full == Cardinality(DOMAIN s.queryCache) >= maxCacheSize
        ao == s.cacheAccessOrder
        s1 == IF full /\ ao # <<>>
              THEN [s EXCEPT !.cacheAccessOrder = Tail(ao),
                             !.queryCache = MapRemove(@, Head(ao))]
              ELSE s
    IN  [s1 EXCEPT !.queryCache = MapPut(@, cacheKey, results),
                   !.cacheAccessOrder = Append(@, cacheKey)]

\* query as it would be if a cache hit recomputed the result array
query_Recompute(s, x, y, radius, fresh) ==
    LET cacheKey == CacheKey(x, y, radius)
        results == [obj |-> fresh, items |-> performQuery(s.grid, x, y, radius)]
    IN  IF cacheKey \in DOMAIN s.queryCache
        THEN [s |-> updateCacheAccess(s, cacheKey), result |-> results, hit |-> TRUE]
        ELSE [s |-> addToCache(s, cacheKey, results), result |-> results, hit |-> FALSE]

\* query(position, radius) with valid arguments; `fresh` names the array a
\* miss allocates.  Gives the index after the call, the array returned and
\* whether it came from the cache.
query(s, x, y, radius, fresh) ==
    LET cacheKey == CacheKey(x, y, radius)
        results == [obj |-> fresh, items |-> performQuery(s.grid, x, y, radius)]
    IN  IF cacheKey \in DOMAIN s.queryCache
        THEN [s |-> updateCacheAccess(s, cacheKey),
              result |-> s.queryCache[cacheKey], hit |-> TRUE]
        ELSE [s |-> addToCache(s, cacheKey, results),
              result |-> results, hit |-> FALSE]

\* update(item) of an item with a valid position
update(s, item) == IF Falsy(item.id) THEN s ELSE insert(remove(s, item.id).s, item)

\* update(item) of whatever a caller hands in: a missing item or a falsy id
\* returns false at once, otherwise remove(item.id) runs and the result is
\* insert's, which validates the position only then
update_checked(s, arg) ==
    IF arg.kind = "missing" \/ Falsy(arg.id) THEN [s |-> s, ret |-> FALSE]
    ELSE insert_checked(remove(s, arg.id).s, arg)

\* clear as it would be if it left itemCount alone
clear_KeepsCount(s) == clearQueryCache([s EXCEPT !.grid = EmptyMap])

clear(s) == clearQueryCache([s EXCEPT !.grid = EmptyMap, !.itemCount = 0])

\* Array.prototype.slice(-n)
LastN(s, n) == IF n = 0 \/ Len(s) <= n THEN s ELSE SubSeq(s, Len(s) - n + 1, Len(s))

\* cleanup(): drop empty cells; above half the cap, clear the cache and keep
\* the last floor(cap / 2) keys of the access order
cleanup(s) ==
    LET g2 == [c \in {d \in DOMAIN s.grid : s.grid[d] # <<>>} |-> s.grid[c]]
        s1 == [s EXCEPT !.grid = g2]
        keepCount == maxCacheSize \div 2
    IN  IF 2 * Cardinality(DOMAIN s.queryCache) > maxCacheSize
        THEN [s1 EXCEPT !.queryCache = EmptyMap,
                        !.cacheAccessOrder = LastN(s.cacheAccessOrder, keepCount)]
        ELSE s1

\* the inner loop of getItemsInBounds: cells (gx, gy..maxGridY)
RECURSIVE BoundsColumn(_, _, _, _, _, _, _, _)
BoundsColumn(g, gx, gy, maxGridY, minX, minY, maxX, maxY) ==
    IF gy > maxGridY THEN <<>>
    ELSE (IF <<gx, gy>> \in DOMAIN g
          THEN SelectSeq(g[<<gx, gy>>],
                         LAMBDA it : /\ it.x >= minX /\ it.x <= maxX
                                     /\ it.y >= minY /\ it.y <= maxY)
          ELSE <<>>)
         \o BoundsColumn(g, gx, gy + 1, maxGridY, minX, minY, maxX, maxY)

\* the outer loop of getItemsInBounds: columns gx..maxGridX
RECURSIVE BoundsColumns(_, _, _, _, _, _, _, _, _)
BoundsColumns(g, gx, maxGridX, minGridY, maxGridY, minX, minY, maxX, maxY) ==
    IF gx > maxGridX THEN <<>>
    ELSE BoundsColumn(g, gx, minGridY, maxGridY, minX, minY, maxX, maxY)
         \o BoundsColumns(g, gx + 1, maxGridX, minGridY, maxGridY,
                          minX, minY, maxX, maxY)

\* getItemsInBounds(minX, minY, maxX, maxY) with four numbers
getItemsInBounds(g, minX, minY, maxX, maxY) ==
    BoundsColumns(g, Max(0, FloorDiv(minX, cellSize)),
                  Min(gridWidth - 1, FloorDiv(maxX, cellSize)),
                  Max(0, FloorDiv(minY, cellSize)),
                  Min(gridHeight - 1, FloorDiv(maxY, cellSize)),
                  minX, minY, maxX, maxY)

\* the limit of findNearest: Math.min(maxDistance, 1000)
SearchLimit(maxDistance) == Min(maxDistance, 10000)
searchRadii(maxDistance) == <<500, 1000, 2000, 5000, SearchLimit(maxDistance)>>

\* the loop of findNearest over the candidates of one radius: the first
\* candidate strictly closer than minDistance (squared: min2) replaces it
RECURSIVE Closest(_, _, _, _)
Closest(candidates, x, y, best) ==
    IF candidates = <<>> THEN best
    ELSE Closest(Tail(candidates), x, y,
                 IF Dist2(Head(candidates).x, Head(candidates).y, x, y) < best.min2
                 THEN [found |-> TRUE, item |-> Head(candidates),
                       min2 |-> Dist2(Head(candidates).x, Head(candidates).y, x, y)]
                 ELSE best)

NothingNearer(maxDistance) ==
    [found |-> FALSE, item |-> [id |-> IntId(0), x |-> 0, y |-> 0],
     min2 |-> SearchLimit(maxDistance) * SearchLimit(maxDistance)]

\* one round of the loop of findNearest, given the index after the query
\* of the i-th radius and what that query returned
RECURSIVE SearchFrom(_, _, _, _, _, _, _)
SearchRound(s, i, x, y, maxDistance, fresh, keys, best) ==
    IF best.found THEN [s |-> s, keys |-> keys, nearest |-> best]
    ELSE SearchFrom(s, i + 1, x, y, maxDistance, fresh, keys)

\* the loop of findNearest from the i-th radius on; `keys` are the cache
\* keys queried so far
SearchFrom(s, i, x, y, maxDistance, fresh, keys) ==
    IF i > 5 \/ searchRadii(maxDistance)[i] > SearchLimit(maxDistance)
    THEN [s |-> s, keys |-> keys, nearest |-> NothingNearer(maxDistance)]
    ELSE SearchRound(query(s, x, y, searchRadii(maxDistance)[i], fresh).s, i,
                     x, y, maxDistance, fresh,
                     Append(keys, CacheKey(x, y, searchRadii(maxDistance)[i])),
                     Closest(query(s, x, y, searchRadii(maxDistance)[i], fresh).result.items,
                             x, y, NothingNearer(maxDistance)))

\* findNearest(position, maxDistance) with a valid position; `fresh` names
\* the arrays its queries allocate
findNearest(s, x, y, maxDistance, fresh) == SearchFrom(s, 1, x, y, maxDistance, fresh, <<>>)

(***************************************************************************)
(* SemanticField                                                           *)
(*                                                                         *)
(* A text is a sequence of one-character strings and a word a non-empty    *)
(* sequence of characters.  Similarities and strengths of the association  *)
(* graph are in thousandths, collocation strengths in tenths (a strength   *)
(* grows by 0.1 per sighting).                                             *)
(***************************************************************************)

\* The caps and the cleanup period, scaled down: the code's values are
\* maxHistorySize 500, maxSemanticGraphSize 1000, maxCollocationSize 2000
\* and a cleanup every 100 analyses.
maxHistorySize == 3
maxSemanticGraphSize == 3
maxCollocationSize == 3
cleanupInterval == 3

FieldState(sg, cm, rh, cc) ==
    [semanticGraph |-> sg, collocationMatrix |-> cm,
     readingHistory |-> rh, cleanupCounter |-> cc]

EmptyField == FieldState(<<>>, <<>>, <<>>, 0)

FirstN(s, n) == SubSeq(s, 1, Min(n, Len(s)))

\* Array.prototype.sort with the comparator (a, b) => b.k - a.k over records
\* with a field k: descending by k, equal keys keep their order
InsertDescending(sorted, e) ==
    LET n == Cardinality({i \in 1..Len(sorted) : sorted[i].k >= e.k})
    IN  SubSeq(sorted, 1, n) \o <<e>> \o SubSeq(sorted, n + 1, Len(sorted))
RECURSIVE SortDescending(_)
SortDescending(s) ==
    IF s = <<>> THEN <<>>
    ELSE InsertDescending(SortDescending(SubSeq(s, 1, Len(s) - 1)), s[Len(s)])

\* the characters text.split(/[\s、。！？]+/) splits at; the four
\* punctuation marks are written by their code points
Separators == {" ", "\t", "\n", "U+3001", "U+3002", "U+FF01", "U+FF1F"}

\* the words of `text` after the word `word` read so far
RECURSIVE SplitWords(_, _)
SplitWords(text, word) ==
    LET done == IF word = <<>> THEN <<>> ELSE <<word>>
    IN  IF text = <<>> THEN done
        ELSE IF Head(text) \in Separators
             THEN done \o SplitWords(Tail(text), <<>>)
             ELSE SplitWords(Tail(text), Append(word, Head(text)))

tokenize(text) == SplitWords(text, <<>>)

\* String.charCodeAt for the letters of the vocabulary and for the
\* character U+0000
charCode ==
    [c \in {"a", "b", "c", "d", "e", "i", "j", "U+0000"} |->
        CASE c = "a" -> 97 [] c = "b" -> 98 [] c = "c" -> 99 [] c = "d" -> 100
          [] c = "e" -> 101 [] c = "i" -> 105 [] c = "j" -> 106
          [] c = "U+0000" -> 0]

\* hash = ((hash << 5) - hash) + char; the words here are too short for the
\* 32-bit hash to wrap
RECURSIVE HashFrom(_, _)
HashFrom(hash, str) ==
    IF str = <<>> THEN hash
    ELSE HashFrom(hash * 32 - hash + charCode[Head(str)], Tail(str))
simpleHash(str) == HashFrom(0, str)

\* getWordEmbedding and calculateSemanticSimilarity: the embedding of a word
\* is the vector sin(hash (i+1)) cos(hash (i+2)), i = 0..49, of its hash, and
\* the similarity of two words the cosine of their embeddings clamped to
\* [0, 1].  The cosines of the hashes 97..106 evaluated in double precision,
\* in thousandths; every pair not listed has a negative cosine, clamped to 0.
\* The embedding of the hash 0 is the zero vector, with which the
\* denominator is 0 and the similarity 0.
PositiveCosines ==
    {<<97, 101, 315>>,
     <<98, 99, 504>>, <<98, 100, 428>>, <<98, 105, 497>>, <<98, 106, 467>>,
     <<99, 100, 451>>, <<99, 105, 652>>, <<99, 106, 563>>,
     <<100, 105, 441>>, <<100, 106, 391>>,
     <<105, 106, 585>>}
EmbeddedHashes == {0, 97, 98, 99, 100, 101, 105, 106}

calculateSemanticSimilarity(hash1, hash2) ==
    IF hash1 = 0 \/ hash2 = 0 THEN 0
    ELSE IF hash1 = hash2 THEN 1000
    ELSE LET listed == {t \in PositiveCosines : {t[1], t[2]} = {hash1, hash2}}
         IN  IF listed = {} THEN 0 ELSE (CHOOSE t \in listed : TRUE)[3]
wordSimilarity ==
    [p \in EmbeddedHashes \X EmbeddedHashes |-> calculateSemanticSimilarity(p[1], p[2])]

\* --- the association graph: root entries [word, conns] in insertion order --

HasRoot(sg, word) == \E i \in 1..Len(sg) : sg[i].word = word
Connections(sg, word) == sg[CHOOSE i \in 1..Len(sg) : sg[i].word = word].conns
ByConnections(sg) ==
    [i \in 1..Len(sg) |-> [k |-> Cardinality(DOMAIN sg[i].conns), v |-> sg[i]]]
Values(sorted) == [i \in 1..Len(sorted) |-> sorted[i].v]

cleanupSemanticGraph(sg) ==
    LET keepCount == (maxSemanticGraphSize * 8) \div 10
    IN  FirstN(Values(SortDescending(ByConnections(sg))), keepCount)

\* addSemanticConnection without the size check
addSemanticConnection_Unbounded(sg, word1, word2, strength) ==
    IF word1 = <<>> \/ word2 = <<>> THEN sg
    ELSE LET rooted == IF HasRoot(sg, word1) THEN sg
                       ELSE Append(sg, [word |-> word1, conns |-> EmptyMap])
         IN  [i \in 1..Len(rooted) |->
                IF rooted[i].word = word1
                THEN [rooted[i] EXCEPT
                        !.conns = MapPut(@, word2, Max(0, Min(1000, strength)))]
                ELSE rooted[i]]

addSemanticConnection(sg, word1, word2, strength) ==
    IF word1 = <<>> \/ word2 = <<>> THEN sg
    ELSE LET sized == IF Len(sg) >= maxSemanticGraphSize
                      THEN cleanupSemanticGraph(sg) ELSE sg
             rooted == IF HasRoot(sized, word1) THEN sized
                       ELSE Append(sized, [word |-> word1, conns |-> EmptyMap])
         IN  [i \in 1..Len(rooted) |->
                IF rooted[i].word = word1
                THEN [rooted[i] EXCEPT
                        !.conns = MapPut(@, word2, Max(0, Min(1000, strength)))]
                ELSE rooted[i]]

getSemanticDistance(sg, word1, word2) ==
    IF word1 = <<>> \/ word2 = <<>> THEN 1000
    ELSE IF HasRoot(sg, word1) /\ word2 \in DOMAIN Connections(sg, word1)
         THEN Max(0, 1000 - Connections(sg, word1)[word2])
         ELSE 1000

getSemanticComplexity(sg, word) ==
    IF word = <<>> THEN 1
    ELSE IF HasRoot(sg, word)
         THEN Min(10, Cardinality(DOMAIN Connections(sg, word))) ELSE 1

\* --- the collocation table: entries [key, strength] in insertion order ----

Bigram(word1, word2) == word1 \o <<"_">> \o word2
HasKey(cm, key) == \E i \in 1..Len(cm) : cm[i].key = key
Strength(cm, key) ==
    IF HasKey(cm, key) THEN cm[CHOOSE i \in 1..Len(cm) : cm[i].key = key].strength
    ELSE 0

getCollocationStrength(cm, word1, word2) ==
    IF word1 = <<>> \/ word2 = <<>> THEN 0 ELSE Strength(cm, Bigram(word1, word2))

\* Math.sin(ratio * Math.PI) in thousandths for a ratio in thousandths, by
\* Bhaskara's formula 16 p / (5 - 4 p) with p = x (1 - x), which is within
\* 0.002 of the sine
SinPi(ratio) ==
    LET m == ratio % 2000
        x == IF m <= 1000 THEN m ELSE m - 1000
        p == (x * (1000 - x)) \div 100
        half == (16000 * p) \div (50000 - 4 * p)
    IN  IF m <= 1000 THEN half ELSE -half

\* generateInterferencePattern for a distance in tenths, a semantic distance
\* in thousandths and a collocation strength in tenths; `Number(v) || d`
\* puts d in the place of 0.  The pattern is in thousandths.
generateInterferencePattern(spatialDist, semanticDist, collocationStrength) ==
    LET safeSpatialDist == Max(1, IF spatialDist = 0 THEN 1 ELSE spatialDist)
        safeSemanticDist ==
            Max(100, Min(1000, IF semanticDist = 0 THEN 1000 ELSE semanticDist))
        safeCollocationStrength == Max(0, Min(10, collocationStrength))
        interferenceRatio == (safeSpatialDist * 100000) \div safeSemanticDist
    IN  [attraction |-> Max(0, Min(1000, safeCollocationStrength * 100
                                           - (interferenceRatio * 3) \div 10)),
         repulsion |-> Max(0, Min(1000, (interferenceRatio - 1000) \div 2)),
         lateral |-> Max(-1000, Min(1000, (SinPi(interferenceRatio) * 2) \div 10))]

\* A node handed to calculateSemanticForce is present or not and has a char,
\* which may be empty; a distance is a number in tenths or, with kind "NaN" or
\* "nonNumeric", none.
Distance(kind, value) == [kind |-> kind, value |-> value]
ClampForce(pattern) ==
    [attraction |-> Max(0, Min(1000, pattern.attraction)),
     repulsion |-> Max(0, Min(1000, pattern.repulsion)),
     lateral |-> Max(-1000, Min(1000, pattern.lateral))]

\* calculateSemanticForce as it would be without its first test: a missing
\* node or char reads as the empty word, a missing number as 0
calculateSemanticForce_Unchecked(f, sourceNode, targetNode, spatialDistance) ==
    ClampForce(generateInterferencePattern(
        IF spatialDistance.kind = "number" THEN spatialDistance.value ELSE 0,
        getSemanticDistance(f.semanticGraph,
                            IF sourceNode.present THEN sourceNode.char ELSE <<>>,
                            IF targetNode.present THEN targetNode.char ELSE <<>>),
        getCollocationStrength(f.collocationMatrix,
                               IF sourceNode.present THEN sourceNode.char ELSE <<>>,
                               IF targetNode.present THEN targetNode.char ELSE <<>>)))

calculateSemanticForce(f, sourceNode, targetNode, spatialDistance) ==
    IF \/ ~sourceNode.present \/ ~targetNode.present
       \/ sourceNode.char = <<>> \/ targetNode.char = <<>>
       \/ spatialDistance.kind # "number"
    THEN [attraction |-> 0, repulsion |-> 0, lateral |-> 0]
    ELSE ClampForce(generateInterferencePattern(
             spatialDistance.value,
             getSemanticDistance(f.semanticGraph, sourceNode.char, targetNode.char),
             getCollocationStrength(f.collocationMatrix, sourceNode.char,
                                    targetNode.char)))

ByStrength(cm) == [i \in 1..Len(cm) |-> [k |-> cm[i].strength, v |-> cm[i]]]

cleanupCollocationMatrix(cm) ==
    LET keepCount == (maxCollocationSize * 8) \div 10
    IN  FirstN(Values(SortDescending(ByStrength(cm))), keepCount)

\* the loop of detectCollocationPatterns from the bigram at position i on
RECURSIVE CountBigrams(_, _, _)
CountBigrams(cm, words, i) ==
    IF i > Len(words) - 1 THEN cm
    ELSE LET bigram == Bigram(words[i], words[i + 1])
             strength == Min(10, Strength(cm, bigram) + 1)
             counted == IF HasKey(cm, bigram)
                        THEN [n \in 1..Len(cm) |->
                                IF cm[n].key = bigram
                                THEN [cm[n] EXCEPT !.strength = strength]
                                ELSE cm[n]]
                        ELSE Append(cm, [key |-> bigram, strength |-> strength])
         IN  CountBigrams(counted, words, i + 1)

detectCollocationPatterns(cm, words) ==
    IF Len(words) < 2 THEN cm
    ELSE CountBigrams(IF Len(cm) >= maxCollocationSize
                      THEN cleanupCollocationMatrix(cm) ELSE cm, words, 1)

\* --- the reading history ---------------------------------------------------

\* addToReadingHistory without the size limit
addToReadingHistory_Unbounded(rh, entry) == Append(rh, entry)

addToReadingHistory(rh, entry) ==
    LET pushed == Append(rh, entry)
        removeCount == Len(pushed) - maxHistorySize
    IN  IF Len(pushed) > maxHistorySize
        THEN SubSeq(pushed, removeCount + 1, Len(pushed)) ELSE pushed

getContextualLoad(f) == Min(1000, Len(f.readingHistory) * 10)

\* calculateCognitiveLoad of a node with a character, in thousandths
calculateCognitiveLoad(f, char) ==
    Max(0, Min(1000, (Len(char) * 1000
                      + getSemanticComplexity(f.semanticGraph, char) * 1000
                      + getContextualLoad(f)) \div 3))

\* simulateReadingBody as far as the field's state goes: a node without a
\* position or a character leaves the history alone, any other node appends
\* one entry stamped with the clock `now`; of the reading state the entry
\* keeps the cognitive load
simulateReadingBody(f, currentNode, now) ==
    IF ~currentNode.positioned \/ currentNode.char = <<>> THEN f
    ELSE [f EXCEPT !.readingHistory =
            addToReadingHistory(@,
                [timestamp |-> now, node |-> currentNode.id,
                 cognitiveLoad |-> calculateCognitiveLoad(f, currentNode.char)])]

\* calculateAverageCognitiveLoad, in thousandths
RECURSIVE TotalLoad(_)
TotalLoad(rh) == IF rh = <<>> THEN 0 ELSE Head(rh).cognitiveLoad + TotalLoad(Tail(rh))
calculateAverageCognitiveLoad(f) ==
    IF f.readingHistory = <<>> THEN 0
    ELSE Max(0, Min(1000, TotalLoad(f.readingHistory) \div Len(f.readingHistory)))

\* --- analysis and periodic cleanup -----------------------------------------

SemanticField_cleanup(f) ==
    LET rh == f.readingHistory
        sg == f.semanticGraph
        cm == f.collocationMatrix
    IN  [f EXCEPT
           !.readingHistory =
               IF Len(rh) > maxHistorySize
               THEN SubSeq(rh, Len(rh) - maxHistorySize + 1, Len(rh)) ELSE rh,
           !.semanticGraph =
               IF Len(sg) > maxSemanticGraphSize THEN cleanupSemanticGraph(sg) ELSE sg,
           !.collocationMatrix =
               IF Len(cm) > maxCollocationSize THEN cleanupCollocationMatrix(cm) ELSE cm]

performCleanupIfNeeded(f) ==
    IF f.cleanupCounter + 1 >= cleanupInterval
    THEN [SemanticField_cleanup(f) EXCEPT !.cleanupCounter = 0]
    ELSE [f EXCEPT !.cleanupCounter = @ + 1]

\* the double loop as it would be if it stored every similarity
RECURSIVE ConnectPairs_All(_, _, _, _)
ConnectPairs_All(sg, words, i, j) ==
    IF i > Len(words) THEN sg
    ELSE IF j > Len(words) THEN ConnectPairs_All(sg, words, i + 1, i + 2)
    ELSE ConnectPairs_All(
             addSemanticConnection(sg, words[i], words[j],
                 wordSimilarity[<<simpleHash(words[i]), simpleHash(words[j])>>]),
             words, i, j + 1)

\* the double loop of analyzeSemanticStructure from the pair (i, j) on
RECURSIVE ConnectPairs(_, _, _, _)
ConnectPairs(sg, words, i, j) ==
    IF i > Len(words) THEN sg
    ELSE IF j > Len(words) THEN ConnectPairs(sg, words, i + 1, i + 2)
    ELSE LET similarity == wordSimilarity[<<simpleHash(words[i]), simpleHash(words[j])>>]
         IN  ConnectPairs(IF similarity > 300
                          THEN addSemanticConnection(sg, words[i], words[j], similarity)
                          ELSE sg,
                          words, i, j + 1)

\* identifySemanticBridges: the connections whose ends, taken as words,
\* are at a semantic distance strictly between 0.8 and 0.95
identifySemanticBridges(sg, cs) ==
    SelectSeq(cs, LAMBDA c :
        /\ c.from # <<>> /\ c.to # <<>>
        /\ getSemanticDistance(sg, c.from, c.to) > 800
        /\ getSemanticDistance(sg, c.from, c.to) < 950)

analyzeSemanticStructure(f, text) ==
    LET words == tokenize(text)
    IN  IF words = <<>> THEN f
        ELSE performCleanupIfNeeded(
                [f EXCEPT
                   !.semanticGraph = ConnectPairs(@, words, 1, 2),
                   !.collocationMatrix = detectCollocationPatterns(@, words)])

(***************************************************************************)
(* OrganicLayout                                                           *)
(*                                                                         *)
(* A node is a record of its id, character, position, energy, generation,  *)
(* text index, parent id and children ids; `serial` tells node objects     *)
(* apart.  Energies are in thousandths.  Directions are multiples of 15    *)
(* degrees (22.5 degrees for the avoidance search), their cosines and      *)
(* sines in thousandths.  A node's velocity and the parameters             *)
(* semanticGravity and interferenceAmplitude only steer the direction of   *)
(* the next node, which applyCurvature turns by a random angle: the model  *)
(* draws that direction.  Of a trajectory point, a collocation field and a *)
(* self-reflection the lists keep what tells the entries apart.            *)
(***************************************************************************)

\* the node cap, scaled down: the code's value is 1000
maxNodes == 4
maxConnections == 2000
initialEnergy == 100000
characterSpacing == 180

\* The caps of the engine's lists and the period of self-reflection, scaled
\* down: the code's values are maxTrajectoryLength 500, maxCollocationFields
\* 200, maxEmergentPatterns 100, maxSelfReflectionHistory 50 and a
\* self-reflection in every 10th generation.
maxTrajectoryLength == 3
maxCollocationFields == 2
maxEmergentPatterns == 2
maxSelfReflectionHistory == 2
reflectionInterval == 3

\* the engine's text: one word of six characters, a single seed
Text == <<"b", "c", "d", "i", "j", "b">>

\* cos and sin of k * 15 degrees
QuarterCos == <<1000, 966, 866, 707, 500, 259, 0>>
Cos(k) ==
    LET m == k % 24
    IN  IF m <= 6 THEN QuarterCos[m + 1]
        ELSE IF m <= 12 THEN -QuarterCos[12 - m + 1]
        ELSE IF m <= 18 THEN -QuarterCos[m - 12 + 1]
        ELSE QuarterCos[24 - m + 1]
Sin(k) == Cos(k + 18)

\* cos and sin of j * 22.5 degrees
QuarterCos8 == <<1000, 924, 707, 383, 0>>
Cos8(j) ==
    LET m == j % 16
    IN  IF m <= 4 THEN QuarterCos8[m + 1]
        ELSE IF m <= 8 THEN -QuarterCos8[8 - m + 1]
        ELSE IF m <= 12 THEN -QuarterCos8[m - 8 + 1]
        ELSE QuarterCos8[16 - m + 1]
Sin8(j) == Cos8(j + 12)

\* a unit component in thousandths times characterSpacing, in tenths
Step(c) == (c * characterSpacing + 500) \div 1000

\* `node_${n}`
NodeId(n) == <<"node", n>>

EngineState(ns, cs, q, gen, growing, decay, made, br, ix, f, now) ==
    [nodes |-> ns, connections |-> cs, growthQueue |-> q, generation |-> gen,
     isGrowing |-> growing, energyDecay |-> decay, created |-> made,
     branches |-> br, index |-> ix, field |-> f, clock |-> now]

\* the params self-reflection adapts next to energyDecay, and the capped lists
EngineAux(gravity, amplitude, trajectory, fields, patterns, reflections) ==
    [semanticGravity |-> gravity, interferenceAmplitude |-> amplitude,
     readingTrajectory |-> trajectory, collocationFields |-> fields,
     emergentPatterns |-> patterns, selfReflectionHistory |-> reflections]

\* what the index and the field see of a node
IndexItem(node) == [id |-> node.id, x |-> node.x, y |-> node.y, char |-> node.char]
ReadingNode(node) == [id |-> node.id, positioned |-> TRUE, char |-> node.char]

\* Math.floor(Math.sqrt(n)) for n up to 300 * 300
Isqrt(n) == CHOOSE r \in 0..300 : r * r <= n /\ n < (r + 1) * (r + 1)

checkIntersection(node, nearbyNodes) ==
    \E i \in 1..Len(nearbyNodes) :
        /\ nearbyNodes[i].id # node.id
        /\ Dist2(node.x, node.y, nearbyNodes[i].x, nearbyNodes[i].y) < 150 * 150

checkSemanticIntersection(f, node, nearbyNodes) ==
    \/ checkIntersection(node, nearbyNodes)
    \/ \E i \in 1..Len(nearbyNodes) :
          /\ getSemanticDistance(f.semanticGraph, node.char, nearbyNodes[i].char) < 300
          /\ Dist2(node.x, node.y, nearbyNodes[i].x, nearbyNodes[i].y) < 250 * 250

\* dot(direction k, normalized direction from node to nearby) > 0.7
SameDirection(k, node, nearby) ==
    LET dx == nearby.x - node.x
        dy == nearby.y - node.y
        along == Cos(k) * dx + Sin(k) * dy
    IN  along > 0 /\ (along \div 20) * (along \div 20) > 1225 * (dx * dx + dy * dy)

\* 0.3 * Math.sin(3 * angle) for the angle k * 15 degrees
Wave(k) == <<0, 212, 300, 212, 0, -212, -300, -212>>[(k % 8) + 1]

\* the neighbours' share of calculateSemanticInterest
RECURSIVE NearbyInterest(_, _, _, _)
NearbyInterest(f, node, k, nearbyNodes) ==
    IF nearbyNodes = <<>> THEN 0
    ELSE (IF SameDirection(k, node, Head(nearbyNodes))
          THEN ((1000 - getSemanticDistance(f.semanticGraph, node.char,
                                            Head(nearbyNodes).char)) * 4) \div 10
          ELSE 0)
         + NearbyInterest(f, node, k, Tail(nearbyNodes))

calculateSemanticInterest(f, node, k, nearbyNodes) ==
    Max(0, Wave(k) + NearbyInterest(f, node, k, nearbyNodes))

Node(serial, id, char, x, y, energy, gen, textIndex, parent) ==
    [serial |-> serial, id |-> id, char |-> char, x |-> x, y |-> y,
     energy |-> energy, generation |-> gen, textIndex |-> textIndex,
     parent |-> parent, children |-> <<>>]

\* the greatest collocation strength between a char and the neighbours', in tenths
RECURSIVE MaxCollocation(_, _, _)
MaxCollocation(f, char, nearbyNodes) ==
    IF nearbyNodes = <<>> THEN 0
    ELSE Max(getCollocationStrength(f.collocationMatrix, char, Head(nearbyNodes).char),
             MaxCollocation(f, char, Tail(nearbyNodes)))

\* calculateSemanticCurvature, in thousandths: the share of the energy
\* spent, 0.3 of the greatest collocation and 0.2 of complexity / 10
calculateSemanticCurvature(e, node, nearbyNodes) ==
    Max(0, Min(1000,
        Max(0, ((initialEnergy - node.energy) * 1000) \div initialEnergy)
        + MaxCollocation(e.field, node.char, nearbyNodes) * 30
        + Min(10, getSemanticComplexity(e.field.semanticGraph, node.char)) * 20))

\* the semantic type determineConnectionType gives a connection
SemanticType(f, fromNode, toNode) ==
    IF getCollocationStrength(f.collocationMatrix, fromNode.char, toNode.char) > 7
    THEN "collocation"
    ELSE IF getSemanticDistance(f.semanticGraph, fromNode.char, toNode.char) < 400
         THEN "similarity"
         ELSE IF getSemanticDistance(f.semanticGraph, fromNode.char, toNode.char) > 800
              THEN "contrast" ELSE "neutral"

\* the trim as it would be if it cut the list at its end
DropNewest(list, cap) == IF Len(list) > cap THEN SubSeq(list, 1, cap) ELSE list

\* splice(0, length - cap) when a list has grown past its cap
DropOldest(list, cap) ==
    IF Len(list) > cap THEN SubSeq(list, Len(list) - cap + 1, Len(list)) ELSE list

\* recordReadingTrajectory: the point is pushed and the list trimmed
recordReadingTrajectory(trajectory, point) ==
    DropOldest(Append(trajectory, point), maxTrajectoryLength)

\* addCollocationFields: the fields with a geometry are pushed, the list trimmed
addCollocationFields(fields, collocationField) ==
    DropOldest(fields \o SelectSeq(collocationField, LAMBDA field : field.geometry),
               maxCollocationFields)

\* visualizeCollocationSensation: a field for every neighbour whose
\* collocation with the node is above 0.5
RECURSIVE visualizeCollocationSensation(_, _, _, _)
visualizeCollocationSensation(f, node, nearbyNodes, now) ==
    IF nearbyNodes = <<>> THEN <<>>
    ELSE (IF getCollocationStrength(f.collocationMatrix, node.char,
                                    Head(nearbyNodes).char) > 5
          THEN <<[timestamp |-> now,
                  intensity |-> getCollocationStrength(f.collocationMatrix, node.char,
                                                       Head(nearbyNodes).char),
                  geometry |-> TRUE]>>
          ELSE <<>>)
         \o visualizeCollocationSensation(f, node, Tail(nearbyNodes), now)

\* the end of updateEmergentPatterns: the new patterns are pushed and the
\* list trimmed
pushEmergentPatterns(patterns, recognized) ==
    DropOldest(patterns \o recognized, maxEmergentPatterns)

\* updateEmergentPatterns, `recognized` being the patterns of the field's
\* recognizeEmergentPatterns that are new
updateEmergentPatterns(e, recognized) ==
    IF Len(e.nodes) < 10 THEN e
    ELSE [e EXCEPT !.emergentPatterns = pushEmergentPatterns(@, recognized)]

\* addConnection as it would be without the duplicate check
addConnection_Always(cs, connection) == Append(cs, connection)

addConnection(cs, connection) ==
    IF \E i \in 1..Len(cs) : cs[i].from = connection.from /\ cs[i].to = connection.to
    THEN cs ELSE Append(cs, connection)

\* what grow and createSemanticBranch do with a node that intersects
\* nothing: push it to the node list, insert it into the index, push its id
\* to the children of the parent object and connect the two
AddNode(e, parentNode, node, link) ==
    [e EXCEPT
       !.nodes = [i \in 1..(Len(@) + 1) |->
                    IF i = Len(@) + 1 THEN node
                    ELSE IF @[i].serial = parentNode.serial
                         THEN [@[i] EXCEPT !.children = Append(@, node.id)]
                         ELSE @[i]],
       !.index = insert(@, IndexItem(node)),
       !.created = node.serial,
       !.connections = addConnection(@, [from |-> parentNode.id, to |-> node.id,
                                         type |-> link.type,
                                         semanticType |-> link.semanticType,
                                         curvature |-> link.curvature])]

\* the first of the 24 directions with the greatest interest
BestDirection(interest) ==
    CHOOSE k \in 0..23 :
        \A j \in 0..23 : interest[j] < interest[k] \/ (interest[j] = interest[k] /\ j >= k)

\* the node createSemanticBranch makes in direction `best`
BranchNode(e, parentNode, best) ==
    Node(e.created + 1, NodeId(Len(e.nodes)),
         <<Text[Min(parentNode.textIndex + 1, Len(Text) - 1) + 1]>>,
         parentNode.x + Step(Cos(best)), parentNode.y + Step(Sin(best)),
         Max(0, (parentNode.energy * 8) \div 10),
         parentNode.generation + 1, Min(parentNode.textIndex + 1, Len(Text) - 1),
         parentNode.id)

\* the branch node is checked against the caller's nearbyNodes
PlaceBranch(e, parentNode, nearbyNodes, maxInterest, branchNode) ==
    IF maxInterest <= 0 THEN [e |-> e, queued |-> <<>>]
    ELSE IF ~checkSemanticIntersection(e.field, branchNode, nearbyNodes)
         THEN [e |-> AddNode(e, parentNode, branchNode,
                             [type |-> "semantic_branch",
                              semanticType |-> "exploration", curvature |-> 300]),
               queued |-> <<branchNode>>]
         ELSE [e |-> e, queued |-> <<>>]

BranchToward(e, parentNode, nearbyNodes, interest, best) ==
    PlaceBranch(e, parentNode, nearbyNodes, interest[best],
                BranchNode(e, parentNode, best))

BranchAlong(e, parentNode, nearbyNodes, interest) ==
    BranchToward(e, parentNode, nearbyNodes, interest, BestDirection(interest))

createSemanticBranch(e, parentNode, nearbyNodes) ==
    BranchAlong(e, parentNode, nearbyNodes,
                [k \in 0..23 |->
                    calculateSemanticInterest(e.field, parentNode, k, nearbyNodes)])

\* the product of Math.min(1, spatialDist / 30) over the neighbours
RECURSIVE SpatialFreedom(_, _, _)
SpatialFreedom(x, y, nearbyNodes) ==
    IF nearbyNodes = <<>> THEN 1000
    ELSE LET d2 == Dist2(x, y, Head(nearbyNodes).x, Head(nearbyNodes).y)
             factor == IF d2 >= 300 * 300 THEN 1000 ELSE (Isqrt(d2) * 1000) \div 300
         IN  (factor * SpatialFreedom(x, y, Tail(nearbyNodes))) \div 1000

\* the product of Math.min(1, semanticDist) over the neighbours
RECURSIVE SemanticFreedom(_, _, _)
SemanticFreedom(f, char, nearbyNodes) ==
    IF nearbyNodes = <<>> THEN 1000
    ELSE (Min(1000, getSemanticDistance(f.semanticGraph, char, Head(nearbyNodes).char))
          * SemanticFreedom(f, char, Tail(nearbyNodes))) \div 1000

calculateSemanticFreedom(f, x, y, char, nearbyNodes) ==
    (SpatialFreedom(x, y, nearbyNodes) + SemanticFreedom(f, char, nearbyNodes)) \div 2

\* createSemanticAvoidanceBranch: a semantic branch if one of the 16 places
\* around the parent has a freedom above 0.3
createSemanticAvoidanceBranch(e, parentNode, nearbyNodes) ==
    IF \E j \in 0..15 :
          calculateSemanticFreedom(e.field, parentNode.x + Step(Cos8(j)),
                                   parentNode.y + Step(Sin8(j)),
                                   parentNode.char, nearbyNodes) > 300
    THEN createSemanticBranch(e, parentNode, nearbyNodes)
    ELSE [e |-> e, queued |-> <<>>]

\* the sum of strength * 0.05 over the neighbours, in thousandths
RECURSIVE CollocationBonus(_, _, _)
CollocationBonus(f, char, nearbyNodes) ==
    IF nearbyNodes = <<>> THEN 0
    ELSE 5 * getCollocationStrength(f.collocationMatrix, char, Head(nearbyNodes).char)
         + CollocationBonus(f, char, Tail(nearbyNodes))

calculateEnergyDecay(e, node, nearbyNodes) ==
    Max(100, Min(1000, e.energyDecay
                       + calculateCognitiveLoad(e.field, node.char) \div 10
                       - CollocationBonus(e.field, node.char, nearbyNodes)))

\* this.nodes.forEach(node => this.spatialIndex.insert(node))
RECURSIVE InsertAll(_, _)
InsertAll(ix, ns) ==
    IF ns = <<>> THEN ix ELSE InsertAll(insert(ix, IndexItem(Head(ns))), Tail(ns))

\* the oldest removeCount nodes leave the list, their connections go, and
\* the index is cleared and refilled
RemoveOldest(e, removeCount) ==
    [e EXCEPT
       !.nodes = SubSeq(@, removeCount + 1, Len(@)),
       !.connections =
           SelectSeq(@, LAMBDA c :
               \A i \in 1..removeCount : c.from # e.nodes[i].id /\ c.to # e.nodes[i].id),
       !.index = InsertAll(clear(@), SubSeq(e.nodes, removeCount + 1, Len(e.nodes)))]

\* the newest 80% of the connections stay
TrimConnections(e) ==
    IF Len(e.connections) > maxConnections
    THEN [e EXCEPT !.connections =
             SubSeq(@, Len(@) - (maxConnections * 8) \div 10 + 1, Len(@))]
    ELSE e

\* a list past its cap keeps its newest 80% of the cap
TrimList(list, cap) ==
    IF Len(list) > cap
    THEN SubSeq(list, Len(list) - (cap * 8) \div 10 + 1, Len(list)) ELSE list

\* performMemoryCleanup: the nodes with the index, the connections, the lists
performMemoryCleanup(e) ==
    [TrimConnections(IF Len(e.nodes) > maxNodes
                     THEN RemoveOldest(e, Len(e.nodes) - (maxNodes * 8) \div 10)
                     ELSE e)
        EXCEPT !.readingTrajectory = TrimList(@, maxTrajectoryLength),
               !.collocationFields = TrimList(@, maxCollocationFields),
               !.emergentPatterns = TrimList(@, maxEmergentPatterns),
               !.selfReflectionHistory = TrimList(@, maxSelfReflectionHistory)]

\* the connections with a semantic type other than 'neutral', and the sum
\* of the curvatures
SemanticConnections(cs) ==
    Cardinality({i \in 1..Len(cs) : cs[i].semanticType # "neutral"})
RECURSIVE TotalCurvature(_)
TotalCurvature(cs) ==
    IF cs = <<>> THEN 0 ELSE Head(cs).curvature + TotalCurvature(Tail(cs))

\* captureSystemState, in thousandths: the semantic connections per node,
\* the mean curvature of the connections, the field's mean cognitive load
captureSystemState(e) ==
    [semanticDensity |-> IF e.nodes = <<>> THEN 0
                         ELSE (SemanticConnections(e.connections) * 1000)
                                  \div Len(e.nodes),
     visualComplexity |-> IF e.connections = <<>> THEN 0
                          ELSE TotalCurvature(e.connections) \div Len(e.connections),
     cognitiveLoad |-> calculateAverageCognitiveLoad(e.field)]

\* a param multiplied by percent / 100 when the measure is above 0.8 (0.7
\* for the visual complexity), by the second factor when it is below 0.3
Adapted(param, measure, high, above, below) ==
    IF measure > high THEN (param * above) \div 100
    ELSE IF measure < 300 THEN (param * below) \div 100
    ELSE param

\* adaptSystemParameters as it would be without the final limits
adaptSystemParameters_Unlimited(e, state) ==
    [e EXCEPT
       !.semanticGravity = Adapted(@, state.semanticDensity, 800, 95, 105),
       !.interferenceAmplitude = Adapted(@, state.visualComplexity, 700, 90, 110),
       !.energyDecay = Adapted(@, state.cognitiveLoad, 800, 110, 90)]

adaptSystemParameters(e, state) ==
    [e EXCEPT
       !.semanticGravity =
           Max(100, Min(1000, Adapted(@, state.semanticDensity, 800, 95, 105))),
       !.interferenceAmplitude =
           Max(100, Min(1000, Adapted(@, state.visualComplexity, 700, 90, 110))),
       !.energyDecay =
           Max(100, Min(1000, Adapted(@, state.cognitiveLoad, 800, 110, 90)))]

\* the newest entry of the reflection history
LastReflection(history) == history[Len(history)]

\* performSelfReflection: the reflection is pushed to the history, the
\* history trimmed and the params adapted to the system state it holds
performSelfReflection(e) ==
    adaptSystemParameters(
        [e EXCEPT !.selfReflectionHistory =
            DropOldest(Append(@, [timestamp |-> e.clock, generation |-> e.generation,
                                  totalNodes |-> Len(e.nodes),
                                  systemState |-> captureSystemState(e)]),
                       maxSelfReflectionHistory)],
        captureSystemState(e))

\* the successor as it would be if the decay were added to the energy
Successor_GainsEnergy(e, node, dir, nearbyNodes) ==
    Node(e.created + 1, NodeId(Len(e.nodes)),
         <<Text[Min(node.textIndex + 1, Len(Text) - 1) + 1]>>,
         node.x + Step(Cos(dir)), node.y + Step(Sin(dir)),
         Max(0, node.energy + calculateEnergyDecay(e, node, nearbyNodes)),
         node.generation + 1, Min(node.textIndex + 1, Len(Text) - 1), node.id)

\* the successor as it would be if its generation were two above its parent's
Successor_TwoGenerations(e, node, dir, nearbyNodes) ==
    Node(e.created + 1, NodeId(Len(e.nodes)),
         <<Text[Min(node.textIndex + 1, Len(Text) - 1) + 1]>>,
         node.x + Step(Cos(dir)), node.y + Step(Sin(dir)),
         Max(0, node.energy - calculateEnergyDecay(e, node, nearbyNodes)),
         node.generation + 2, Min(node.textIndex + 1, Len(Text) - 1), node.id)

\* the successor grow makes of `node` in direction dir
Successor(e, node, dir, nearbyNodes) ==
    Node(e.created + 1, NodeId(Len(e.nodes)),
         <<Text[Min(node.textIndex + 1, Len(Text) - 1) + 1]>>,
         node.x + Step(Cos(dir)), node.y + Step(Sin(dir)),
         Max(0, node.energy - calculateEnergyDecay(e, node, nearbyNodes)),
         node.generation + 1, Min(node.textIndex + 1, Len(Text) - 1), node.id)

WithQueued(first, b) == [e |-> b.e, queued |-> first \o b.queued]

\* the branch draw as it would be without the test of the energy
BranchAfter_AnyEnergy(e, node, choice, nearbyNodes, newNode) ==
    IF choice.branch
    THEN WithQueued(<<newNode>>,
                    createSemanticBranch([e EXCEPT !.branches = @ + 1], node, nearbyNodes))
    ELSE [e |-> e, queued |-> <<newNode>>]

\* after the successor was added: the branch draw, the branch checked
\* against the nearbyNodes found before the successor was added
BranchAfter(e, node, choice, nearbyNodes, newNode) ==
    IF choice.branch /\ node.energy > 50000
    THEN WithQueued(<<newNode>>,
                    createSemanticBranch([e EXCEPT !.branches = @ + 1], node, nearbyNodes))
    ELSE [e |-> e, queued |-> <<newNode>>]

PlaceSuccessor(e, node, choice, nearbyNodes, newNode) ==
    IF ~checkSemanticIntersection(e.field, newNode, nearbyNodes)
    THEN BranchAfter(AddNode(e, node, newNode,
                             [type |-> "growth",
                              semanticType |-> SemanticType(e.field, node, newNode),
                              curvature |-> calculateSemanticCurvature(e, node,
                                                                       nearbyNodes)]),
                     node, choice, nearbyNodes, newNode)
    ELSE createSemanticAvoidanceBranch(e, node, nearbyNodes)

\* the end of a round: recordReadingTrajectory(node, newNode, curvedDir)
Recorded(g, point) ==
    [e |-> [g.e EXCEPT !.readingTrajectory = recordReadingTrajectory(@, point)],
     queued |-> g.queued]

\* the new node is made, the collocation fields around the node are added,
\* the new node is placed and the step recorded
GrowAmong(e, node, choice, nearbyNodes) ==
    Recorded(PlaceSuccessor([e EXCEPT !.collocationFields =
                                addCollocationFields(@,
                                    visualizeCollocationSensation(e.field, node,
                                                                  nearbyNodes, e.clock))],
                            node, choice, nearbyNodes,
                            Successor(e, node, choice.dir, nearbyNodes)),
             [timestamp |-> e.clock, from |-> node.id, to |-> NodeId(Len(e.nodes))])

\* q is the outcome of the query for the neighbours; the field reads the node
GrowAfterQuery(e, node, choice, q) ==
    GrowAmong([e EXCEPT !.index = q.s, !.clock = @ + 1,
                        !.field = simulateReadingBody(@, ReadingNode(node), e.clock + 1)],
              node, choice, SelectSeq(q.result.items, LAMBDA n : n.id # node.id))

\* the round as it would be without the test of energy and textIndex
GrowNode_Unchecked(e, node, choice) ==
    GrowAfterQuery(e, node, choice, query(e.index, node.x, node.y, 500, 1))

\* one round of the loop of grow for the queued node `node`: `choice.dir` is
\* the direction applyCurvature returns, `choice.branch` whether
\* Math.random() falls below the branch probability.  Gives the engine after
\* the round and the nodes pushed to the new queue.
GrowNode(e, node, choice) ==
    IF node.energy <= 0 \/ node.textIndex >= Len(Text) - 1
    THEN [e |-> e, queued |-> <<>>]
    ELSE GrowAfterQuery(e, node, choice, query(e.index, node.x, node.y, 500, 1))

\* the loop of grow over the queue from its i-th node on
RECURSIVE GrowQueue(_, _, _, _, _)
GrowRest(g, queue, choices, i, newQueue) ==
    GrowQueue(g.e, queue, choices, i + 1, newQueue \o g.queued)

GrowQueue(e, queue, choices, i, newQueue) ==
    IF i > Len(queue) THEN [e |-> e, queued |-> newQueue]
    ELSE GrowRest(GrowNode(e, queue[i], choices[i]), queue, choices, i, newQueue)

\* the end of grow as it would be if the new nodes joined the old queue
EndGrow_KeepsQueue(adapt, g) ==
    [(IF adapt THEN performSelfReflection(updateEmergentPatterns(g.e, <<>>))
      ELSE updateEmergentPatterns(g.e, <<>>))
        EXCEPT !.growthQueue = @ \o g.queued, !.generation = @ + 1]

\* the end of grow as it would be if every tick reflected
EndGrow_AlwaysReflects(adapt, g) ==
    [performSelfReflection(updateEmergentPatterns(g.e, <<>>))
        EXCEPT !.growthQueue = g.queued, !.generation = @ + 1]

\* the end of grow: the emergent patterns (the node list of the engine's
\* runs stays below the 10 nodes from which the field is asked for them),
\* the self-reflection in the generations that are a multiple of the
\* period, the new queue, the generation
EndGrow(adapt, g) ==
    [(IF adapt THEN performSelfReflection(updateEmergentPatterns(g.e, <<>>))
      ELSE updateEmergentPatterns(g.e, <<>>))
        EXCEPT !.growthQueue = g.queued, !.generation = @ + 1]

\* the memory check at the start of a tick
StartTick(e) == IF Len(e.nodes) >= maxNodes THEN performMemoryCleanup(e) ELSE e

\* grow as it would be without the test of isGrowing and the queue
grow_Unguarded(e, choices) ==
    EndGrow(e.generation % reflectionInterval = 0,
            GrowQueue(StartTick(e), e.growthQueue, choices, 1, <<>>))

grow(e, choices) ==
    IF ~e.isGrowing \/ e.growthQueue = <<>> THEN e
    ELSE EndGrow(e.generation % reflectionInterval = 0,
                 GrowQueue(StartTick(e), e.growthQueue, choices, 1, <<>>))

seedCount == Max(1, Min(10, Isqrt(Len(Text)) \div 5))

\* the loop of initialize from the i-th seed on; the seeds lie `radius` from
\* the centre, the i-th at the angle i / seedCount of the full turn
RECURSIVE Seeds(_, _, _)
Seeds(e, i, radius) ==
    IF i >= seedCount THEN e
    ELSE LET k == (i * 24) \div seedCount
             textIndex == Min(i * (Len(Text) \div seedCount), Len(Text) - 1)
             seed == Node(e.created + 1, NodeId(Len(e.nodes)), <<Text[textIndex + 1]>>,
                          width \div 2 + (Cos(k) * radius) \div 1000,
                          height \div 2 + (Sin(k) * radius) \div 1000,
                          initialEnergy, 0, textIndex, None)
         IN  Seeds([e EXCEPT !.nodes = Append(@, seed),
                             !.index = insert(@, IndexItem(seed)),
                             !.growthQueue = Append(@, seed),
                             !.created = seed.serial],
                   i + 1, radius)

initialize(e, radius) == IF Text = <<>> THEN e ELSE Seeds(e, 0, radius)

\* what reset clears before it initializes: the field is a new one, the
\* node objects and the calls to the field are counted anew
Cleared(e) ==
    [e EXCEPT !.nodes = <<>>, !.connections = <<>>, !.growthQueue = <<>>,
              !.generation = 0, !.isGrowing = FALSE, !.index = clear(@),
              !.field = EmptyField, !.created = 0, !.clock = 0,
              !.readingTrajectory = <<>>, !.collocationFields = <<>>,
              !.emergentPatterns = <<>>, !.selfReflectionHistory = <<>>]

\* reset as it would be if it left the index alone
reset_KeepsIndex(e, radius) == initialize([Cleared(e) EXCEPT !.index = e.index], radius)

reset(e, radius) == initialize(Cleared(e), radius)

(***************************************************************************)
(* The index driven by a caller.  SpecIndex exercises the grid with two    *)
(* item ids and few cache keys, SpecCache the cache with many cache keys   *)
(* over one item; both run the same actions.                               *)
(***************************************************************************)

\* positions of the items a caller inserts: (10, 10), (15.2, 10), (-60, 10)
\* left of the canvas, and (780, 590) of scenario A
ItemPoints == {<<100, 100>>, <<152, 100>>, <<-600, 100>>, <<7800, 5900>>}
ItemIds == {1, 2}
\* centres and radii of the queries: (10.4, 10) rounds to the key of (10, 10)
QueryPoints == {<<100, 100>>, <<104, 100>>, <<-600, 100>>}
QueryRadii == {50}

\* the inputs of SpecCache
CacheItemPoints == {<<100, 100>>}
CacheItemIds == {1}
CacheQueries == {<<100, 100, 50>>, <<-600, 100, 50>>,
                 <<7800, 5900, 50>>, <<100, 100, 700>>, <<-600, 100, 700>>}

Item(id, p) == [id |-> IntId(id), x |-> p[1], y |-> p[2]]

\* the cache keys whose returned arrays the caller keeps for comparison
WatchedKeys == {CacheKey(p[1], p[2], r) : p \in QueryPoints, r \in QueryRadii}
NoRet == [k \in WatchedKeys |-> 0]

\* the current index as one value
Index == IndexState(grid, itemCount, queryCache, cacheAccessOrder)

SetIndex(s) ==
    /\ grid' = s.grid
    /\ itemCount' = s.itemCount
    /\ queryCache' = s.queryCache
    /\ cacheAccessOrder' = s.cacheAccessOrder

\* what `ret` records of a call
Call(op, ok) ==
    [op |-> op, ok |-> ok, key |-> <<>>, x |-> 0, y |-> 0, radius |-> 0,
     result |-> [obj |-> 0, items |-> <<>>], hit |-> FALSE]

\* Arrays are named 1 and 2 per cache key: a miss allocates an array that is
\* not the one the last query for that key returned (the only array the
\* caller still holds for that key).
FreshObj(key) == IF key \in WatchedKeys /\ lastRet[key] = 1 THEN 2 ELSE 1

\* no engine is running beside the index or the field under test
NoEngine ==
    /\ nodes = <<>>
    /\ connections = <<>>
    /\ growthQueue = <<>>
    /\ generation = 0
    /\ isGrowing = FALSE
    /\ energyDecay = 300
    /\ created = 0
    /\ branches = 0
    /\ semanticGravity = 600
    /\ interferenceAmplitude = 400
    /\ readingTrajectory = <<>>
    /\ collocationFields = <<>>
    /\ emergentPatterns = <<>>
    /\ selfReflectionHistory = <<>>

Init ==
    /\ grid = EmptyIndex.grid
    /\ itemCount = EmptyIndex.itemCount
    /\ queryCache = EmptyIndex.queryCache
    /\ cacheAccessOrder = EmptyIndex.cacheAccessOrder
    /\ ret = Call("new", TRUE)
    /\ lastRet = NoRet
    /\ lru = <<>>
    /\ semanticGraph = EmptyField.semanticGraph
    /\ collocationMatrix = EmptyField.collocationMatrix
    /\ readingHistory = EmptyField.readingHistory
    /\ cleanupCounter = EmptyField.cleanupCounter
    /\ clock = 0
    /\ NoEngine

Cached(s) == DOMAIN s.queryCache

Insert(item) ==
    /\ SetIndex(insert(Index, item))
    /\ ret' = Call("insert", TRUE)
    /\ lastRet' = NoRet
    /\ lru' = <<>>
    /\ UNCHANGED <<fieldvars, enginevars>>

Remove(id) ==
    LET r == remove(Index, IntId(id))
    IN  /\ SetIndex(r.s)
        /\ ret' = Call("remove", r.ret)
        /\ lastRet' = IF r.ret THEN NoRet ELSE lastRet
        /\ lru' = SelectSeq(lru, LAMBDA k : k \in Cached(r.s))
        /\ UNCHANGED <<fieldvars, enginevars>>

Update(item) ==
    /\ SetIndex(update(Index, item))
    /\ ret' = Call("update", ~Falsy(item.id))
    /\ lastRet' = IF Falsy(item.id) THEN lastRet ELSE NoRet
    /\ lru' = IF Falsy(item.id) THEN lru ELSE <<>>
    /\ UNCHANGED <<fieldvars, enginevars>>

Query(x, y, radius) ==
    LET key == CacheKey(x, y, radius)
        q == query(Index, x, y, radius, FreshObj(key))
    IN  /\ SetIndex(q.s)
        /\ ret' = [Call("query", TRUE) EXCEPT
                      !.key = key, !.x = x, !.y = y, !.radius = radius,
                      !.result = q.result, !.hit = q.hit]
        /\ lastRet' = IF key \in WatchedKeys
                      THEN [lastRet EXCEPT ![key] = q.result.obj] ELSE lastRet
        /\ lru' = Append(SelectSeq(lru, LAMBDA k : k # key /\ k \in Cached(q.s)), key)
        /\ UNCHANGED <<fieldvars, enginevars>>

Clear ==
    /\ SetIndex(clear(Index))
    /\ ret' = Call("clear", TRUE)
    /\ lru' = <<>>
    /\ UNCHANGED <<lastRet, fieldvars, enginevars>>

Cleanup ==
    LET s == cleanup(Index)
    IN  /\ SetIndex(s)
        /\ ret' = Call("cleanup", TRUE)
        /\ lru' = SelectSeq(lru, LAMBDA k : k \in Cached(s))
        /\ UNCHANGED <<lastRet, fieldvars, enginevars>>

NextIndex ==
    \/ \E id \in ItemIds, p \in ItemPoints : Insert(Item(id, p))
    \/ \E id \in ItemIds : Remove(id)
    \/ \E id \in ItemIds, p \in ItemPoints : Update(Item(id, p))
    \/ \E p \in QueryPoints, r \in QueryRadii : Query(p[1], p[2], r)
    \/ Clear
    \/ Cleanup

SpecIndex == Init /\ [][NextIndex]_vars

NextCache ==
    \/ \E id \in CacheItemIds, p \in CacheItemPoints : Insert(Item(id, p))
    \/ \E id \in CacheItemIds : Remove(id)
    \/ \E id \in CacheItemIds, p \in CacheItemPoints : Update(Item(id, p))
    \/ \E q \in CacheQueries : Query(q[1], q[2], q[3])
    \/ Clear
    \/ Cleanup

SpecCache == Init /\ [][NextCache]_vars

(***************************************************************************)
(* The index driven by a caller who also hands invalid arguments and the   *)
(* id 0 to insert, and who removes an item right after inserting it.  The  *)
(* index holds at most MaxItems items.                                     *)
(***************************************************************************)

MaxItems == 3
\* the ids 0, 1 and 2, and two positions in different cells
CallIds == {0, 1, 2}
CallPoints == {<<100, 100>>, <<7800, 5900>>}
InvalidKinds == {"missing", "noPosition", "notObject", "nonNumeric", "NaN"}
ValidArguments == {Argument("valid", IntId(id), p[1], p[2]) : id \in CallIds, p \in CallPoints}
InvalidArguments == {Argument(kind, IntId(id), 0, 0) : kind \in InvalidKinds, id \in CallIds}

InsertCall(arg) ==
    LET r == insert_checked(Index, arg)
    IN  /\ r.s.itemCount <= MaxItems
        /\ SetIndex(r.s)
        /\ ret' = [op |-> "insert", ok |-> r.ret, item |-> arg]
        /\ lastRet' = IF r.ret THEN NoRet ELSE lastRet
        /\ lru' = IF r.ret THEN <<>> ELSE lru
        /\ UNCHANGED <<fieldvars, enginevars>>

\* insert(item) followed immediately by remove(item.id)
InsertThenRemove(arg) ==
    LET r == remove(insert(Index, ArgumentItem(arg)), arg.id)
    IN  /\ r.s.itemCount <= MaxItems
        /\ SetIndex(r.s)
        /\ ret' = [op |-> "insert+remove", ok |-> r.ret, item |-> arg,
                   wasIndexed |-> findItemById(grid, arg.id)]
        /\ lastRet' = NoRet
        /\ lru' = <<>>
        /\ UNCHANGED <<fieldvars, enginevars>>

UpdateCall(item) ==
    /\ update(Index, item).itemCount <= MaxItems
    /\ Update(item)

\* update(item) with an item whose position is invalid
UpdateInvalid(arg) ==
    \E r \in {update_checked(Index, arg)} :
        /\ SetIndex(r.s)
        /\ ret' = [op |-> "update", ok |-> r.ret, item |-> arg,
                   wasIndexed |-> findItemById(grid, arg.id)]
        /\ lastRet' = IF r.s = Index THEN lastRet ELSE NoRet
        /\ lru' = SelectSeq(lru, LAMBDA k : k \in Cached(r.s))
        /\ UNCHANGED <<fieldvars, enginevars>>

NextItems ==
    \/ \E arg \in ValidArguments \cup InvalidArguments : InsertCall(arg)
    \/ \E arg \in InvalidArguments : UpdateInvalid(arg)
    \/ \E arg \in ValidArguments : InsertThenRemove(arg)
    \/ \E id \in CallIds : Remove(id)
    \/ \E id \in CallIds, p \in CallPoints : UpdateCall(Item(id, p))
    \/ Query(100, 100, 50)
    \/ Clear
    \/ Cleanup

SpecItems == Init /\ [][NextItems]_vars

(***************************************************************************)
(* The index searched by a caller: items with the ids 0 and 1 inside and   *)
(* outside the canvas, findNearest and getItemsInBounds.                   *)
(***************************************************************************)

\* (10, 10), (70, 10) at distance 60 of it and (-60, 10) left of the canvas
SearchPoints == {<<100, 100>>, <<700, 100>>, <<-600, 100>>}
SearchIds == {0, 1}
SearchArguments ==
    {Argument("valid", IntId(id), p[1], p[2]) : id \in SearchIds, p \in SearchPoints}
\* the centre of findNearest and its maxDistance: 30, 70 and 2000
NearestCentres == {<<100, 100>>}
NearestDistances == {300, 700, 20000}
\* rectangles <<minX, minY, maxX, maxY>>: inside the canvas, across its
\* left edge and wholly left of it
Rectangles == {<<50, 50, 750, 150>>, <<-1000, 0, 200, 200>>, <<-1000, 0, -100, 200>>}

\* the arrays findNearest has query allocate are held by no caller
Unheld == 3

RemoveCall(id) ==
    \E r \in {remove(Index, IntId(id))} :
        /\ SetIndex(r.s)
        /\ ret' = [op |-> "remove", ok |-> r.ret, id |-> IntId(id)]
        /\ lastRet' = IF r.ret THEN NoRet ELSE lastRet
        /\ lru' = SelectSeq(lru, LAMBDA k : k \in Cached(r.s))
        /\ UNCHANGED <<fieldvars, enginevars>>

FindNearest(x, y, maxDistance) ==
    \E r \in {findNearest(Index, x, y, maxDistance, Unheld)} :
        /\ SetIndex(r.s)
        /\ ret' = [op |-> "findNearest", ok |-> TRUE, x |-> x, y |-> y,
                   maxDistance |-> maxDistance,
                   found |-> r.nearest.found, nearest |-> r.nearest.item]
        /\ lru' = SelectSeq(lru, LAMBDA k : k \in Cached(r.s)
                                            /\ \A j \in 1..Len(r.keys) : r.keys[j] # k)
                   \o r.keys
        /\ UNCHANGED <<lastRet, fieldvars, enginevars>>

GetItemsInBounds(rect) ==
    /\ ret' = [op |-> "getItemsInBounds", ok |-> TRUE, rect |-> rect,
               items |-> getItemsInBounds(grid, rect[1], rect[2], rect[3], rect[4])]
    /\ UNCHANGED <<ixvars, cachevars, fieldvars, enginevars>>

NextSearch ==
    \/ \E arg \in SearchArguments : InsertCall(arg)
    \/ \E id \in SearchIds : RemoveCall(id)
    \/ \E id \in SearchIds, p \in SearchPoints : UpdateCall(Item(id, p))
    \/ \E p \in NearestCentres, d \in NearestDistances : FindNearest(p[1], p[2], d)
    \/ \E rect \in Rectangles : GetItemsInBounds(rect)
    \/ Clear
    \/ Cleanup

SpecSearch == Init /\ [][NextSearch]_vars

(***************************************************************************)
(* The field driven by a caller, MaxFieldCalls calls in all.  SpecField    *)
(* analyses texts and adds connections, SpecReading reads nodes between    *)
(* analyses.                                                               *)
(***************************************************************************)

MaxFieldCalls == 6

\* "b c d i j" brings four roots and four bigrams at once; the others have
\* one bigram, no word, or one word
Texts ==
    {<<"b", " ", "c", " ", "d", " ", "i", " ", "j">>,
     <<"a", "U+3001", " ", "e">>,
     <<"e", "\n", "a", "U+3002">>,
     <<" ", "U+FF01">>,
     <<"c">>}
\* the texts analysed between readings
ReadingTexts == {<<"a", " ", "e">>}
ConnectionWords == {<<"a">>, <<"b">>, <<>>}
ConnectionStrengths == {1500}
\* the nodes read: two with a character, one without, one without position
ReadNodes ==
    {[id |-> 1, positioned |-> TRUE, char |-> <<"a">>],
     [id |-> 2, positioned |-> TRUE, char |-> <<"b">>],
     [id |-> 3, positioned |-> TRUE, char |-> <<>>],
     [id |-> 4, positioned |-> FALSE, char |-> <<"a">>]}

Field == FieldState(semanticGraph, collocationMatrix, readingHistory, cleanupCounter)

SetField(f) ==
    /\ semanticGraph' = f.semanticGraph
    /\ collocationMatrix' = f.collocationMatrix
    /\ readingHistory' = f.readingHistory
    /\ cleanupCounter' = f.cleanupCounter

AnalyzeSemanticStructure(text) ==
    /\ clock < MaxFieldCalls
    /\ clock' = clock + 1
    /\ SetField(analyzeSemanticStructure(Field, text))
    /\ ret' = [op |-> "analyzeSemanticStructure", ok |-> tokenize(text) # <<>>,
               words |-> tokenize(text)]
    /\ UNCHANGED <<ixvars, cachevars, enginevars>>

AddSemanticConnection(word1, word2, strength) ==
    /\ clock < MaxFieldCalls
    /\ clock' = clock + 1
    /\ SetField([Field EXCEPT
                   !.semanticGraph = addSemanticConnection(@, word1, word2, strength)])
    /\ ret' = [op |-> "addSemanticConnection", ok |-> word1 # <<>> /\ word2 # <<>>,
               word1 |-> word1, word2 |-> word2, sizeBefore |-> Len(semanticGraph)]
    /\ UNCHANGED <<ixvars, cachevars, enginevars>>

SimulateReadingBody(currentNode) ==
    /\ clock < MaxFieldCalls
    /\ clock' = clock + 1
    /\ SetField(simulateReadingBody(Field, currentNode, clock + 1))
    /\ ret' = [op |-> "simulateReadingBody",
               ok |-> currentNode.positioned /\ currentNode.char # <<>>,
               node |-> currentNode.id, sizeBefore |-> Len(readingHistory)]
    /\ UNCHANGED <<ixvars, cachevars, enginevars>>

NextField ==
    \/ \E text \in Texts : AnalyzeSemanticStructure(text)
    \/ \E word1 \in ConnectionWords, word2 \in ConnectionWords,
          strength \in ConnectionStrengths :
            AddSemanticConnection(word1, word2, strength)

SpecField == Init /\ [][NextField]_vars

NextReading ==
    \/ \E node \in ReadNodes : SimulateReadingBody(node)
    \/ \E text \in ReadingTexts : AnalyzeSemanticStructure(text)

SpecReading == Init /\ [][NextReading]_vars

\* The connections the engine hands to the field for bridges: their ends
\* are strings, here words of the analysed texts, a word that is in no text
\* and the empty string
\* the texts analysed before bridges are asked for: one more has two words
\* whose similarity is 0
BridgeTexts == Texts \cup {<<"a", " ", "b">>}
BridgeWords == {<<"a">>, <<"e">>, <<"b">>, <<"c">>, <<"z">>, <<>>}
BridgeConnections == {<<[from |-> w1, to |-> w2]>> : w1, w2 \in BridgeWords}

\* the bridges part of updateEmergentPatterns: every bridge the field
\* identifies becomes a 'semantic_bridge' pattern
UpdateBridgePatterns(cs) ==
    /\ clock < MaxFieldCalls
    /\ clock' = clock + 1
    /\ \E bridges \in {identifySemanticBridges(semanticGraph, cs)} :
          /\ emergentPatterns' =
                 pushEmergentPatterns(emergentPatterns,
                     [i \in 1..Len(bridges) |->
                         [timestamp |-> clock + 1, type |-> "semantic_bridge",
                          generation |-> generation]])
          /\ ret' = [op |-> "identifySemanticBridges", ok |-> TRUE,
                     connections |-> cs, bridges |-> bridges,
                     gap |-> getSemanticDistance(semanticGraph, cs[1].from, cs[1].to)]
    /\ UNCHANGED <<ixvars, cachevars, semanticGraph, collocationMatrix, readingHistory,
                   cleanupCounter, nodes, connections, growthQueue, generation,
                   isGrowing, energyDecay, created, branches, semanticGravity,
                   interferenceAmplitude, readingTrajectory, collocationFields,
                   selfReflectionHistory>>

\* the field after analyses alone, asked for bridges
NextBridges ==
    \/ \E text \in BridgeTexts : AnalyzeSemanticStructure(text)
    \/ \E cs \in BridgeConnections : UpdateBridgePatterns(cs)

SpecBridges == Init /\ [][NextBridges]_vars

\* The forces asked of the field between analyses and added connections:
\* from a node with the char a or the empty char or from no node, to a node
\* with the char a or e or the empty char or to no node; distances 0, 0.1,
\* 0.5, 1.5, 1000 and -5, NaN and a string
ForceSources ==
    {[present |-> FALSE, char |-> <<>>]}
        \cup {[present |-> TRUE, char |-> w] : w \in {<<"a">>, <<>>}}
ForceTargets ==
    {[present |-> FALSE, char |-> <<>>]}
        \cup {[present |-> TRUE, char |-> w] : w \in {<<"a">>, <<"e">>, <<>>}}
ForceDistances ==
    {Distance("number", d) : d \in {0, 1, 5, 15, 10000, -50}}
        \cup {Distance("NaN", 0), Distance("nonNumeric", 0)}

\* the words compared with themselves: a, e and the one-character word U+0000
SimilarWords == {<<"a">>, <<"e">>, <<"U+0000">>}

\* calculateSemanticSimilarity(getWordEmbedding(word), getWordEmbedding(word))
SelfSimilarity(word) ==
    /\ ret' = [op |-> "calculateSemanticSimilarity", ok |-> TRUE, word |-> word,
               hash |-> simpleHash(word),
               similarity |-> calculateSemanticSimilarity(simpleHash(word),
                                                          simpleHash(word))]
    /\ UNCHANGED <<ixvars, cachevars, fieldvars, enginevars>>

CalculateSemanticForce(sourceNode, targetNode, spatialDistance) ==
    /\ ret' = [op |-> "calculateSemanticForce",
               ok |-> /\ sourceNode.present /\ targetNode.present
                      /\ spatialDistance.kind = "number",
               source |-> sourceNode, target |-> targetNode,
               distance |-> spatialDistance,
               force |-> calculateSemanticForce(Field, sourceNode, targetNode,
                                                spatialDistance)]
    /\ UNCHANGED <<ixvars, cachevars, fieldvars, enginevars>>

NextForce ==
    \/ \E text \in ReadingTexts : AnalyzeSemanticStructure(text)
    \/ \E word1 \in ConnectionWords, word2 \in ConnectionWords,
          strength \in ConnectionStrengths :
            AddSemanticConnection(word1, word2, strength)
    \/ \E sourceNode \in ForceSources, targetNode \in ForceTargets,
          spatialDistance \in ForceDistances :
            CalculateSemanticForce(sourceNode, targetNode, spatialDistance)
    \/ \E word \in SimilarWords : SelfSimilarity(word)

SpecForce == Init /\ [][NextForce]_vars

(***************************************************************************)
(* The engine: new OrganicLayout(Text, 800, 600), then initialize, start,  *)
(* pause and grow ticks.                                                   *)
(***************************************************************************)

\* at most MaxBranches branch draws come out true
MaxBranches == 1
\* the greatest fall of energyDecay and the greatest rise of
\* interferenceAmplitude before a reset, in thousandths
MaxDecayDrop == 30
MaxAmplitudeRise == 40
\* the seed radius 100 + Math.random() * 50
SeedRadii == {1000, 1250}
\* the directions drawn for a successor: 45 and 180 degrees
GrowthDirections == {3, 12}
GrowthChoices == [dir : GrowthDirections, branch : BOOLEAN]

Engine ==
    EngineState(nodes, connections, growthQueue, generation, isGrowing,
                energyDecay, created, branches, Index, Field, clock)
        @@ EngineAux(semanticGravity, interferenceAmplitude, readingTrajectory,
                     collocationFields, emergentPatterns, selfReflectionHistory)

SetEngine(e) ==
    /\ nodes' = e.nodes
    /\ connections' = e.connections
    /\ growthQueue' = e.growthQueue
    /\ generation' = e.generation
    /\ isGrowing' = e.isGrowing
    /\ energyDecay' = e.energyDecay
    /\ created' = e.created
    /\ branches' = e.branches
    /\ semanticGravity' = e.semanticGravity
    /\ interferenceAmplitude' = e.interferenceAmplitude
    /\ readingTrajectory' = e.readingTrajectory
    /\ collocationFields' = e.collocationFields
    /\ emergentPatterns' = e.emergentPatterns
    /\ selfReflectionHistory' = e.selfReflectionHistory
    /\ clock' = e.clock
    /\ SetIndex(e.index)
    /\ SetField(e.field)

\* the constructor analyses the text
InitEngine ==
    /\ grid = EmptyIndex.grid
    /\ itemCount = EmptyIndex.itemCount
    /\ queryCache = EmptyIndex.queryCache
    /\ cacheAccessOrder = EmptyIndex.cacheAccessOrder
    /\ ret = [op |-> "new", ok |-> TRUE]
    /\ lastRet = NoRet
    /\ lru = <<>>
    /\ \E f \in {analyzeSemanticStructure(EmptyField, Text)} :
          /\ semanticGraph = f.semanticGraph
          /\ collocationMatrix = f.collocationMatrix
          /\ readingHistory = f.readingHistory
          /\ cleanupCounter = f.cleanupCounter
    /\ clock = 0
    /\ NoEngine

\* the application initializes the engine it has just made
Initialize(radius) ==
    /\ nodes = <<>>
    /\ \E e \in {initialize(Engine, radius)} : SetEngine(e)
    /\ ret' = [op |-> "initialize", ok |-> TRUE]
    /\ UNCHANGED cachevars

Start ==
    /\ isGrowing' = TRUE
    /\ ret' = [op |-> "start", ok |-> TRUE]
    /\ UNCHANGED <<ixvars, cachevars, fieldvars, nodes, connections, growthQueue,
                   generation, energyDecay, created, branches, auxvars>>

Pause ==
    /\ isGrowing' = FALSE
    /\ ret' = [op |-> "pause", ok |-> TRUE]
    /\ UNCHANGED <<ixvars, cachevars, fieldvars, nodes, connections, growthQueue,
                   generation, energyDecay, created, branches, auxvars>>

\* The draws a tick can make use of: a direction for every queued node that
\* grows, and a branch draw that comes out true only for a node that grows,
\* at most MaxBranches times in all among the nodes that may branch.  Any
\* other draw leaves the tick as one of these does.
Draws(choices) ==
    /\ \A i \in 1..Len(growthQueue) :
          LET grows == /\ isGrowing
                       /\ growthQueue[i].energy > 0
                       /\ growthQueue[i].textIndex < Len(Text) - 1
          IN  /\ ~grows => choices[i].dir = 3
              /\ choices[i].branch => grows
    /\ Cardinality({i \in 1..Len(growthQueue) : choices[i].branch})
          <= MaxBranches - branches

\* the places of a queue whose node has no energy left
Spent(queue) == {i \in 1..Len(queue) : queue[i].energy <= 0}

Grow(choices) ==
    /\ Draws(choices)
    /\ \E e \in {grow(Engine, choices)} :
          /\ e.branches <= MaxBranches
          /\ SetEngine(e)
    /\ ret' = [op |-> "grow", ok |-> isGrowing /\ growthQueue # <<>>,
               sizeBefore |-> Len(nodes),
               exhausted |-> {growthQueue[i].serial : i \in Spent(growthQueue)}]
    /\ UNCHANGED cachevars

\* reset leaves the params as adapted; the application resets an engine
\* whose energyDecay is at most MaxDecayDrop below the initial 0.3 and whose
\* interferenceAmplitude is at most MaxAmplitudeRise above the initial 0.4
Reset(radius) ==
    /\ 300 - energyDecay <= MaxDecayDrop
    /\ interferenceAmplitude - 400 <= MaxAmplitudeRise
    /\ \E e \in {reset(Engine, radius)} : SetEngine(e)
    /\ ret' = [op |-> "reset", ok |-> TRUE]
    /\ UNCHANGED cachevars

\* the caller sets the energy of the i-th queued node to 0 before a tick
Exhaust(i) ==
    /\ growthQueue[i].energy > 0
    /\ growthQueue' = [growthQueue EXCEPT ![i].energy = 0]
    /\ nodes' = [j \in 1..Len(nodes) |->
                    IF nodes[j].serial = growthQueue[i].serial
                    THEN [nodes[j] EXCEPT !.energy = 0] ELSE nodes[j]]
    /\ ret' = [op |-> "exhaust", ok |-> TRUE]
    /\ UNCHANGED <<ixvars, cachevars, fieldvars, connections, generation, isGrowing,
                   energyDecay, created, branches, auxvars>>

\* the caller lowers the energy of the i-th queued node to 50, the greatest
\* energy with which a node does not branch
Drain(i) ==
    /\ growthQueue[i].energy > 50000
    /\ growthQueue' = [growthQueue EXCEPT ![i].energy = 50000]
    /\ nodes' = [j \in 1..Len(nodes) |->
                    IF nodes[j].serial = growthQueue[i].serial
                    THEN [nodes[j] EXCEPT !.energy = 50000] ELSE nodes[j]]
    /\ ret' = [op |-> "drain", ok |-> TRUE]
    /\ UNCHANGED <<ixvars, cachevars, fieldvars, connections, generation, isGrowing,
                   energyDecay, created, branches, auxvars>>

NextEngine ==
    \/ \E radius \in SeedRadii : Initialize(radius)
    \/ Start
    \/ Pause
    \/ \E choices \in [1..Len(growthQueue) -> GrowthChoices] : Grow(choices)
    \/ \E i \in 1..Len(growthQueue) : Exhaust(i)
    \/ \E radius \in SeedRadii : Reset(radius)

SpecEngine == InitEngine /\ [][NextEngine]_vars

\* the engine grown by a caller who lowers the energy of queued nodes to the
\* branch threshold between ticks
NextBranch ==
    \/ \E radius \in SeedRadii : Initialize(radius)
    \/ Start
    \/ \E choices \in [1..Len(growthQueue) -> GrowthChoices] : Grow(choices)
    \/ \E i \in 1..Len(growthQueue) : Drain(i)

SpecBranch == InitEngine /\ [][NextBranch]_vars

(***************************************************************************)
(* The params under repeated adaptation: adaptSystemParameters applied to  *)
(* reflections whose system state is sparse and calm (0), balanced (0.5)   *)
(* or dense and loaded (0.9), MaxAdaptations times in all.                 *)
(***************************************************************************)

MaxAdaptations == 12
SystemStates ==
    {[semanticDensity |-> 0, visualComplexity |-> 0, cognitiveLoad |-> 0],
     [semanticDensity |-> 500, visualComplexity |-> 500, cognitiveLoad |-> 500],
     [semanticDensity |-> 900, visualComplexity |-> 900, cognitiveLoad |-> 900]}

AdaptSystemParameters(state) ==
    /\ clock < MaxAdaptations
    /\ \E e \in {adaptSystemParameters([Engine EXCEPT !.clock = @ + 1], state)} :
          SetEngine(e)
    /\ ret' = [op |-> "adaptSystemParameters", ok |-> TRUE, state |-> state]
    /\ UNCHANGED cachevars

NextAdapt == \E state \in SystemStates : AdaptSystemParameters(state)

SpecAdapt == InitEngine /\ [][NextAdapt]_vars

(***************************************************************************)
(* The capped lists of the engine, filled by the steps of a tick that push *)
(* to them, MaxListCalls steps in all: a trajectory point, the collocation *)
(* fields around a node, the patterns the field recognised in a graph of   *)
(* ten nodes or more, a self-reflection, and the memory cleanup.           *)
(***************************************************************************)

MaxListCalls == 5
\* the intensities and geometries of the fields one call adds: one field,
\* two, three of which the second has no geometry, and three
FieldLists ==
    {<<[intensity |-> 6, geometry |-> TRUE]>>,
     <<[intensity |-> 6, geometry |-> TRUE], [intensity |-> 8, geometry |-> TRUE]>>,
     <<[intensity |-> 6, geometry |-> TRUE], [intensity |-> 7, geometry |-> FALSE],
       [intensity |-> 8, geometry |-> TRUE]>>,
     <<[intensity |-> 6, geometry |-> TRUE], [intensity |-> 7, geometry |-> TRUE],
       [intensity |-> 8, geometry |-> TRUE]>>}
\* the types of the patterns one call recognises
PatternLists ==
    {<<"semantic_cluster">>,
     <<"semantic_cluster", "reading_spiral", "reading_spiral">>}

\* a step of the engine on its lists: the call is stamped with the clock,
\* and what it pushed and how many entries it dropped is returned
ListStep(op, e, pushed, before) ==
    /\ SetEngine(e)
    /\ ret' = [op |-> op, ok |-> TRUE, pushed |-> pushed,
               dropped |-> Len(before) + Len(pushed)
                             - Len(IF op = "recordReadingTrajectory" THEN e.readingTrajectory
                                   ELSE IF op = "addCollocationFields" THEN e.collocationFields
                                   ELSE IF op = "updateEmergentPatterns" THEN e.emergentPatterns
                                   ELSE e.selfReflectionHistory)]
    /\ UNCHANGED cachevars

RecordReadingTrajectory ==
    /\ clock < MaxListCalls
    /\ \E point \in {[timestamp |-> clock + 1, from |-> NodeId(0), to |-> NodeId(1)]} :
          ListStep("recordReadingTrajectory",
                   [Engine EXCEPT !.clock = @ + 1,
                                  !.readingTrajectory = recordReadingTrajectory(@, point)],
                   <<point>>, readingTrajectory)

AddCollocationFields(fields) ==
    /\ clock < MaxListCalls
    /\ \E collocationField \in
            {[i \in 1..Len(fields) |->
                [timestamp |-> clock + 1, intensity |-> fields[i].intensity,
                 geometry |-> fields[i].geometry]]} :
          ListStep("addCollocationFields",
                   [Engine EXCEPT !.clock = @ + 1,
                                  !.collocationFields =
                                      addCollocationFields(@, collocationField)],
                   SelectSeq(collocationField, LAMBDA field : field.geometry),
                   collocationFields)

UpdateEmergentPatterns(types) ==
    /\ clock < MaxListCalls
    /\ \E recognized \in
            {[i \in 1..Len(types) |->
                [timestamp |-> clock + 1, type |-> types[i], generation |-> generation]]} :
          ListStep("updateEmergentPatterns",
                   [Engine EXCEPT !.clock = @ + 1,
                                  !.emergentPatterns = pushEmergentPatterns(@, recognized)],
                   recognized, emergentPatterns)

PerformSelfReflection ==
    /\ clock < MaxListCalls
    /\ \E e \in {performSelfReflection([Engine EXCEPT !.clock = @ + 1])} :
          ListStep("performSelfReflection", e,
                   <<LastReflection(e.selfReflectionHistory)>>, selfReflectionHistory)

PerformMemoryCleanup ==
    /\ SetEngine(performMemoryCleanup(Engine))
    /\ ret' = [op |-> "performMemoryCleanup", ok |-> TRUE, pushed |-> <<>>, dropped |-> 0]
    /\ UNCHANGED cachevars

NextLists ==
    \/ RecordReadingTrajectory
    \/ \E fields \in FieldLists : AddCollocationFields(fields)
    \/ \E types \in PatternLists : UpdateEmergentPatterns(types)
    \/ PerformSelfReflection
    \/ PerformMemoryCleanup

SpecLists == InitEngine /\ [][NextLists]_vars

(***************************************************************************)
(* Claims about the index and its cache                                    *)
(***************************************************************************)

\* C1: a query returns exactly the indexed items within `radius` of the
\* centre, whatever the grid and cache state (items and centres outside the
\* canvas, queries that round to the same cache key included).
C1_QueryIsExact ==
    ret.op = "query" =>
        /\ Range(ret.result.items) =
              {it \in AllItems(grid) : WithinRadius(it, ret.x, ret.y, ret.radius)}
        /\ Len(ret.result.items) = Cardinality(Range(ret.result.items))

\* C3: the query cache never holds more than maxCacheSize entries.
C3_CacheWithinCap == Cardinality(DOMAIN queryCache) <= maxCacheSize

\* C4: a query miss that stores its result while the cache is at capacity
\* evicts the least recently used key (the head of lru) and no other.
StoresAtCapacity ==
    /\ Cardinality(DOMAIN queryCache) >= maxCacheSize
    /\ (DOMAIN queryCache') \ (DOMAIN queryCache) # {}
C4_EvictsLeastRecentlyUsed ==
    [][StoresAtCapacity => (DOMAIN queryCache) \ (DOMAIN queryCache') = {Head(lru)}]_vars

\* C5 as stated: a query for a key returns the array the previous query for
\* that key returned, unless an insert or a removing remove came in between
\* (lastRet is reset by exactly those).
C5_SameObjectUntilMutation ==
    [][(ret'.op = "query" /\ ret'.key \in WatchedKeys /\ lastRet[ret'.key] # 0)
          => ret'.result.obj = lastRet[ret'.key]]_vars

\* C5 amended: a query for a key that is still cached returns the cached
\* array, which is the one the previous query for that key returned; after a
\* successful insert or a removing remove the cache is empty, and what the
\* cache holds was computed from the current grid.
MutationEmptiesCache ==
    (ret.op \in {"insert", "update", "remove"} /\ ret.ok)
        => (queryCache = EmptyMap /\ cacheAccessOrder = <<>>)
CachedFromCurrentGrid ==
    \A k \in DOMAIN queryCache :
        \E q \in CacheQueries \cup {<<p[1], p[2], r>> : p \in QueryPoints, r \in QueryRadii} :
            /\ CacheKey(q[1], q[2], q[3]) = k
            /\ queryCache[k].items = performQuery(grid, q[1], q[2], q[3])
C5_SameObjectWhileCached ==
    /\ [][(ret'.op = "query" /\ ret'.key \in WatchedKeys /\ ret'.key \in DOMAIN queryCache)
            => (ret'.hit /\ ret'.result = queryCache[ret'.key]
                         /\ ret'.result.obj = lastRet[ret'.key])]_vars
    /\ [](MutationEmptiesCache /\ CachedFromCurrentGrid)
C5_Witness ==
    /\ ret.op = "query" /\ ret.hit /\ ret.key \in WatchedKeys
    /\ ret.result.items # <<>>
    /\ Cardinality(DOMAIN queryCache) = maxCacheSize

(***************************************************************************)
(* Claims about the field                                                  *)
(***************************************************************************)

\* C8: the collocation table never holds more than maxCollocationSize
\* entries after an analysis, a text with more new bigrams than the
\* remaining capacity included.
C8_CollocationWithinCap == Len(collocationMatrix) <= maxCollocationSize

\* C9: the association graph never holds more than maxSemanticGraphSize
\* roots, and an addSemanticConnection that finds the graph at its cap keeps
\* the floor(0.8 * cap) roots with the most connections: the roots other
\* than word1 are untouched or gone, no root that is gone had more
\* connections than one that stayed, and word1's own root either stayed
\* among the kept ones or was dropped and started again with word2 alone.
EvictionKeepsMostConnected ==
    LET keepCount == (maxSemanticGraphSize * 8) \div 10
        word1 == ret'.word1
        Size(e) == Cardinality(DOMAIN e.conns)
        others == {e \in Range(semanticGraph) : e.word # word1}
        own == {e \in Range(semanticGraph) : e.word = word1}
        stayed == others \cap Range(semanticGraph')
        gone == {e \in others : ~HasRoot(semanticGraph', e.word)}
        ownStayed ==
            /\ own # {}
            /\ Cardinality(stayed) = keepCount - 1
            /\ \A e \in own :
                  /\ DOMAIN e.conns \subseteq DOMAIN Connections(semanticGraph', word1)
                  /\ \A g \in gone : Size(e) >= Size(g)
        ownDropped ==
            /\ Cardinality(stayed) = keepCount
            /\ DOMAIN Connections(semanticGraph', word1) = {ret'.word2}
            /\ \A e \in own : \A k \in stayed : Size(k) >= Size(e)
    IN  /\ others = stayed \cup gone
        /\ \A k \in stayed : \A g \in gone : Size(k) >= Size(g)
        /\ ownStayed \/ ownDropped
C9_GraphWithinCap ==
    /\ [](Len(semanticGraph) <= maxSemanticGraphSize)
    /\ [][(/\ ret'.op = "addSemanticConnection" /\ ret'.ok
            /\ Len(semanticGraph) >= maxSemanticGraphSize)
               => EvictionKeepsMostConnected]_vars
\* an addSemanticConnection has found the graph at its cap, with roots of
\* different connection counts left
C9_Witness ==
    /\ ret.op = "addSemanticConnection" /\ ret.ok
    /\ ret.sizeBefore >= maxSemanticGraphSize
    /\ Len(semanticGraph) = (maxSemanticGraphSize * 8) \div 10 + 1
    /\ \E e1 \in Range(semanticGraph), e2 \in Range(semanticGraph) :
          Cardinality(DOMAIN e1.conns) > Cardinality(DOMAIN e2.conns) + 1

\* C10: the reading history never holds more than maxHistorySize entries; a
\* simulateReadingBody with a valid node appends exactly one entry, dropping
\* the oldest when the history is full, so that the history is the latest
\* entries in call order; any other simulateReadingBody leaves it alone.
AppendsDroppingOldest ==
    LET n == Len(readingHistory')
    IN  /\ n = Min(Len(readingHistory) + 1, maxHistorySize)
        /\ readingHistory'[n].timestamp = clock'
        /\ readingHistory'[n].node = ret'.node
        /\ \A i \in 1..(n - 1) :
              readingHistory'[i] = readingHistory[Len(readingHistory) - (n - 1) + i]
InCallOrder ==
    \A i \in 1..Len(readingHistory) : \A j \in 1..Len(readingHistory) :
        i < j => readingHistory[i].timestamp < readingHistory[j].timestamp
C10_HistoryWithinCap ==
    /\ [](Len(readingHistory) <= maxHistorySize /\ InCallOrder)
    /\ [][ret'.op = "simulateReadingBody"
            => IF ret'.ok THEN AppendsDroppingOldest
               ELSE readingHistory' = readingHistory]_vars
\* a valid node has been read with the history full
C10_Witness ==
    /\ ret.op = "simulateReadingBody" /\ ret.ok
    /\ ret.sizeBefore = maxHistorySize
    /\ Len(readingHistory) = maxHistorySize
    /\ readingHistory[1].timestamp > 1

(***************************************************************************)
(* Claims about the engine                                                 *)
(***************************************************************************)

\* C2: after initialize and any number of grow ticks, any two distinct
\* nodes of the node list are at least 15 units apart.
C2_NodesApart ==
    \A i \in 1..Len(nodes) : \A j \in 1..Len(nodes) :
        i # j => Dist2(nodes[i].x, nodes[i].y, nodes[j].x, nodes[j].y) >= 150 * 150

\* C6: no two nodes of the node list share an id.
C6_UniqueIds ==
    \A i \in 1..Len(nodes) : \A j \in 1..Len(nodes) :
        i # j => nodes[i].id # nodes[j].id

\* C7: the index holds exactly the nodes of the node list, each once and in
\* the cell of its clamped grid coordinates, and itemCount is their number.
C7_IndexHoldsNodes ==
    /\ itemCount = Len(nodes)
    /\ Cardinality(Slots(grid)) = Len(nodes)
    /\ \A i \in 1..Len(nodes) :
          LET cell == getGridKey(nodes[i].x, nodes[i].y)
          IN  /\ cell \in DOMAIN grid
              /\ \E n \in 1..Len(grid[cell]) : grid[cell][n] = IndexItem(nodes[i])
    /\ \A sl \in Slots(grid) :
          /\ \E i \in 1..Len(nodes) : grid[sl[1]][sl[2]] = IndexItem(nodes[i])
          /\ sl[1] = getGridKey(grid[sl[1]][sl[2]].x, grid[sl[1]][sl[2]].y)

(***************************************************************************)
(* Claims about the grid of the index                                      *)
(***************************************************************************)

\* C11: in every reachable state of the index, itemCount equals the sum of
\* the lengths of all cell lists.
C11_CountIsSumOfCells == itemCount = Cardinality(Slots(grid))

\* a successful remove has left two cells with an item each
C11_Witness ==
    /\ ret.op = "remove" /\ ret.ok
    /\ itemCount = 2
    /\ Cardinality(DOMAIN grid) = 2

\* C12: insert(item) followed immediately by remove(item.id) restores
\* itemCount and the non-empty cells with their contents, whether or not an
\* item with that id was indexed before.
NonEmptyCells(g) == [c \in {d \in DOMAIN g : g[d] # <<>>} |-> g[c]]
C14_InvalidInsertMutatesNothing ==
    [][(ret'.op = "insert" /\ ret'.item.kind # "valid")
          => ~ret'.ok /\ UNCHANGED ixvars]_vars

\* an invalid insert was made with the id of an indexed item while the cache
\* held an entry
C14_Witness ==
    /\ ret.op = "insert" /\ ~ret.ok
    /\ findItemById(grid, ret.item.id)
    /\ queryCache # EmptyMap

(***************************************************************************)
(* Claims about the ticks of the engine                                    *)
(***************************************************************************)

\* C15: the connection list never holds two entries with the same from and
\* the same to, and addConnection of an entry whose (from, to) pair is in the
\* list leaves the list as it is.
C15_ConnectionsUnique ==
    /\ \A i, j \in 1..Len(connections) :
          (connections[i].from = connections[j].from
             /\ connections[i].to = connections[j].to) => i = j
    /\ \A i \in 1..Len(connections) :
          addConnection(connections, [connections[i] EXCEPT !.type = "other"])
             = connections

\* two nodes with the same id and the same parent are in the list, and the
\* one connection of that pair with them
C15_Witness ==
    /\ ret.op = "grow"
    /\ \E i, j \in 1..Len(nodes) :
          /\ i < j
          /\ nodes[i].id = nodes[j].id
          /\ nodes[i].parent = nodes[j].parent
          /\ \E c \in 1..Len(connections) :
                connections[c].from = nodes[i].parent /\ connections[c].to = nodes[i].id

\* C16: a tick that starts with maxNodes nodes or more cuts the node list
\* down to its newest floor(0.8 * maxNodes) nodes, leaves no connection from
\* or to a dropped id, and rebuilds the index with exactly the survivors.
Survivors == LastN(nodes, (maxNodes * 8) \div 10)
DroppedIds == {nodes[i].id : i \in 1..(Len(nodes) - (maxNodes * 8) \div 10)}
C16_CleanupTrims ==
    (isGrowing /\ growthQueue # <<>> /\ Len(nodes) >= maxNodes) =>
        /\ StartTick(Engine).nodes = Survivors
        /\ \A i \in 1..Len(StartTick(Engine).connections) :
              /\ StartTick(Engine).connections[i].from \notin DroppedIds
              /\ StartTick(Engine).connections[i].to \notin DroppedIds
        /\ StartTick(Engine).index.itemCount = Len(Survivors)
        /\ AllItems(StartTick(Engine).index.grid)
              = {IndexItem(Survivors[i]) : i \in 1..Len(Survivors)}

\* C17: grow while the engine is not growing or the queue is empty changes
\* nothing of the engine, the index and the field, and pause changes the
\* growing flag alone.
C17_GrowIdleIsNoOp ==
    /\ [][(ret'.op = "grow" /\ (~isGrowing \/ growthQueue = <<>>))
            => UNCHANGED <<ixvars, fieldvars, enginevars>>]_vars
    /\ [][ret'.op = "pause"
            => /\ ~isGrowing'
               /\ UNCHANGED <<ixvars, fieldvars, nodes, connections, growthQueue,
                              generation, energyDecay, created, branches>>]_vars

\* grow was called on a paused engine with a node in the queue
C17_Witness ==
    /\ ret.op = "grow" /\ ~ret.ok
    /\ ~isGrowing
    /\ growthQueue # <<>>
    /\ Len(nodes) >= 2

\* C18: in a tick a queued node without energy or at the end of the text
\* gets no child, no connection and no place in the next queue, and stays
\* in the node list.
Skipped(node) == node.energy <= 0 \/ node.textIndex >= Len(Text) - 1
ChildrenOf(ns, serial) == {ns[j].children : j \in {k \in 1..Len(ns) : ns[k].serial = serial}}
ConnectionsFrom(cs, id) == {cs[j] : j \in {k \in 1..Len(cs) : cs[k].from = id}}
C19_SeedsAndGenerations ==
    /\ ret.op = "initialize" =>
          /\ Len(nodes) = seedCount
          /\ growthQueue = nodes
          /\ \A i \in 1..Len(nodes) :
                nodes[i].generation = 0 /\ nodes[i].energy = initialEnergy
    /\ ret.op \in {"start", "pause", "grow", "exhaust"} /\ created > 0 =>
          /\ Len(nodes) >= seedCount
          /\ \A i \in 1..Len(nodes) : nodes[i].generation <= generation

\* three ticks have grown a node of the third generation
C19_Witness ==
    /\ ret.op = "grow"
    /\ generation = 3
    /\ \E i \in 1..Len(nodes) : nodes[i].generation = 3

(***************************************************************************)
(* Claims about the forces of the field                                    *)
(***************************************************************************)

\* C20: calculateSemanticForce gives an attraction and a repulsion in [0, 1]
\* and a lateral force in [-1, 1] for every pair of chars and every distance,
\* in every state of the graph and the collocation table, and the all-zero
\* triple for a missing node or char or a distance that is no number.
ForceArgumentsValid ==
    /\ ret.source.present /\ ret.target.present
    /\ ret.source.char # <<>> /\ ret.target.char # <<>>
    /\ ret.distance.kind = "number"
C20_ForceWithinRange ==
    ret.op = "calculateSemanticForce" =>
        /\ ret.force.attraction \in 0..1000
        /\ ret.force.repulsion \in 0..1000
        /\ ret.force.lateral \in (-1000)..1000
        /\ ~ForceArgumentsValid
              => ret.force = [attraction |-> 0, repulsion |-> 0, lateral |-> 0]

\* the force between two chars at distance 0 whose semantic distance is 0
C20_Witness ==
    /\ ret.op = "calculateSemanticForce"
    /\ ForceArgumentsValid
    /\ ret.distance.value = 0
    /\ getSemanticDistance(semanticGraph, ret.source.char, ret.target.char) = 0
    /\ ret.force.lateral # 0

(***************************************************************************)
(* Claims about the lineages of the engine                                 *)
(***************************************************************************)

\* C21: no node has a negative energy, seeds start at initialEnergy, and a
\* node made by a tick has at most the energy of its parent: a main
\* successor the parent's energy less a decay in [0.1, 1] (or 0), a branch
\* 0.8 of it.
MadeBy(ns, made) == {ns[j] : j \in {k \in 1..Len(ns) : ns[k].serial > made}}
ParentsOf(node) ==
    {growthQueue[i] : i \in {k \in 1..Len(growthQueue) : growthQueue[k].id = node.parent}}
IsSuccessorEnergy(energy, parentEnergy) ==
    \/ parentEnergy - energy \in 100..1000
    \/ energy = 0 /\ parentEnergy <= 1000
IsBranchEnergy(energy, parentEnergy) == energy = Max(0, (parentEnergy * 8) \div 10)
C21_EnergyNonIncreasing ==
    /\ [](\A i \in 1..Len(nodes) : nodes[i].energy >= 0)
    /\ [](ret.op = "initialize"
            => \A i \in 1..Len(nodes) : nodes[i].energy = initialEnergy)
    /\ [][ret'.op = "grow"
            => \A node \in MadeBy(nodes', created) :
                  \E parent \in ParentsOf(node) :
                      /\ 0 <= node.energy /\ node.energy <= parent.energy
                      /\ \/ IsSuccessorEnergy(node.energy, parent.energy)
                         \/ IsBranchEnergy(node.energy, parent.energy)]_vars

\* a tick has made a main successor after the adaptation changed energyDecay
C21_Witness ==
    /\ ret.op = "grow"
    /\ energyDecay # 300
    /\ \E i \in 1..Len(nodes) :
          /\ nodes[i].generation = 2
          /\ nodes[i].energy < initialEnergy - 100
          /\ nodes[i].energy > (initialEnergy * 8) \div 10

ItemsNearer(x, y, maxDistance) ==
    {it \in AllItems(grid) :
        Dist2(it.x, it.y, x, y) < SearchLimit(maxDistance) * SearchLimit(maxDistance)}

\* C22: findNearest returns an item exactly when some indexed item is at a
\* distance below min(maxDistance, 1000) of the position, for every
\* maxDistance > 0, and the item it returns is a closest one.
C22_NearestFound ==
    ret.op = "findNearest" =>
        /\ ret.found <=> ItemsNearer(ret.x, ret.y, ret.maxDistance) # {}
        /\ ret.found =>
              /\ ret.nearest \in AllItems(grid)
              /\ \A it \in AllItems(grid) :
                    Dist2(ret.nearest.x, ret.nearest.y, ret.x, ret.y)
                        <= Dist2(it.x, it.y, ret.x, ret.y)

\* the items of the index inside a rectangle, its edges included
ItemsInside(rect) ==
    {it \in AllItems(grid) : /\ rect[1] <= it.x /\ it.x <= rect[3]
                             /\ rect[2] <= it.y /\ it.y <= rect[4]}

\* C25: getItemsInBounds returns exactly the indexed items inside the
\* rectangle, wherever the items and the rectangle lie, and leaves the
\* cache alone.
C25_BoundsExact ==
    /\ [](ret.op = "getItemsInBounds" =>
            {ret.items[i] : i \in 1..Len(ret.items)} = ItemsInside(ret.rect))
    /\ [][ret'.op = "getItemsInBounds" => UNCHANGED <<queryCache, cacheAccessOrder>>]_vars

\* C24: remove(id) leaves no item with that id and no empty cell list; it
\* returns true and empties the cache exactly when it removed an item, and
\* a remove of the same id right after it returns false and changes nothing.
C24_RemoveTakesAll ==
    /\ [](\A c \in DOMAIN grid : grid[c] # <<>>)
    /\ [](ret.op = "remove" => \A it \in AllItems(grid) : it.id # ret.id)
    /\ [][ret'.op = "remove" =>
            /\ ret'.ok <=> \E it \in AllItems(grid) : it.id = ret'.id
            /\ ret'.ok => queryCache' = EmptyMap /\ cacheAccessOrder' = <<>>
            /\ ~ret'.ok => UNCHANGED ixvars
            /\ ret.op = "remove" /\ ret.id = ret'.id => ~ret'.ok]_vars

\* C29: cleanup() of a cache above half its cap leaves exactly the
\* floor(maxCacheSize / 2) most recently used entries cached, with the
\* access order listing those keys; a smaller cache is left unchanged; no
\* cell list is empty afterwards and no item is lost.
C29_CleanupKeepsRecent ==
    [][ret'.op = "cleanup" =>
        /\ AllItems(grid') = AllItems(grid)
        /\ itemCount' = itemCount
        /\ \A c \in DOMAIN grid' : grid'[c] # <<>>
        /\ IF 2 * Cardinality(DOMAIN queryCache) > maxCacheSize
           THEN /\ DOMAIN queryCache'
                     = {LastN(lru, maxCacheSize \div 2)[j] :
                            j \in 1..Len(LastN(lru, maxCacheSize \div 2))}
                /\ \A k \in DOMAIN queryCache' : queryCache'[k] = queryCache[k]
                /\ cacheAccessOrder' = LastN(lru, maxCacheSize \div 2)
           ELSE UNCHANGED <<queryCache, cacheAccessOrder>>]_vars

\* C26: the similarity of the embedding of a non-empty word with itself is
\* 1, also for a word whose hash is 0.
C26_SelfSimilarityIsOne ==
    ret.op = "calculateSemanticSimilarity" /\ ret.word # <<>> => ret.similarity = 1000

\* max(0.1, spatialDistance) / max(0.1, semanticDistance) in thousandths,
\* for a distance in tenths and a semantic distance in thousandths
FlooredRatio(spatialDist, semanticDist) ==
    (Max(1, spatialDist) * 100000) \div Max(100, semanticDist)

\* C30: for a distance >= 0 the force between two nodes with characters is
\* attraction = clamp01(collocation - 0.3 ratio) and repulsion =
\* clamp01(0.5 (ratio - 1)) with ratio = max(0.1, spatialDistance) /
\* max(0.1, semanticDistance), also for the semantic distance 0.
C30_RatioOfFlooredDistances ==
    /\ ret.op = "calculateSemanticForce"
    /\ ret.ok /\ ret.source.char # <<>> /\ ret.target.char # <<>>
    /\ ret.distance.value >= 0
    => \E ratio \in {FlooredRatio(ret.distance.value,
                                  getSemanticDistance(semanticGraph, ret.source.char,
                                                      ret.target.char))} :
          /\ ret.force.attraction
               = Max(0, Min(1000, 100 * Max(0, Min(10,
                       getCollocationStrength(collocationMatrix, ret.source.char,
                                              ret.target.char)))
                                  - (ratio * 3) \div 10))
          /\ ret.force.repulsion = Max(0, Min(1000, (ratio - 1000) \div 2))

\* C27: the queue a tick leaves holds only nodes made in that tick, each
\* once, so that a node is queued for one effective tick only; every queued
\* node has the generation of the engine, which an effective tick raises by
\* exactly 1.
C27_QueuedForOneTick ==
    /\ [](\A i \in 1..Len(growthQueue) : growthQueue[i].generation = generation)
    /\ [][ret'.op = "grow" /\ ret'.ok =>
            /\ generation' = generation + 1
            /\ \A i \in 1..Len(growthQueue') :
                  /\ growthQueue'[i].serial > created
                  /\ \E j \in 1..Len(nodes') : nodes'[j].serial = growthQueue'[i].serial
                  /\ \A j \in 1..Len(growthQueue) :
                        growthQueue[j].serial # growthQueue'[i].serial
                  /\ \A j \in 1..Len(growthQueue') :
                        growthQueue'[j].serial = growthQueue'[i].serial => j = i]_vars

\* a tick has queued a successor and a branch, the second tick at least
C27_Witness ==
    /\ ret.op = "grow" /\ ret.ok
    /\ generation >= 2
    /\ Len(growthQueue) >= 2

\* the neighbours grow finds for a queued node, and the engine after the
\* field has read the node
NearbyNodes(e, node) ==
    SelectSeq(query(e.index, node.x, node.y, 500, 1).result.items,
              LAMBDA n : n.id # node.id)
AfterReading(e, node) ==
    [e EXCEPT !.index = query(e.index, node.x, node.y, 500, 1).s, !.clock = @ + 1,
              !.field = simulateReadingBody(@, ReadingNode(node), e.clock + 1)]

\* the freedom of the j-th of the 16 places around a node, and the first
\* place with the greatest freedom
FreedomAt(e, node, j, nearbyNodes) ==
    calculateSemanticFreedom(e.field, node.x + Step(Cos8(j)), node.y + Step(Sin8(j)),
                             node.char, nearbyNodes)
FreestAngle(e, node, nearbyNodes) ==
    CHOOSE j \in 0..15 :
        \A i \in 0..15 :
            \/ FreedomAt(e, node, i, nearbyNodes) < FreedomAt(e, node, j, nearbyNodes)
            \/ /\ FreedomAt(e, node, i, nearbyNodes) = FreedomAt(e, node, j, nearbyNodes)
               /\ i >= j

\* the branch node placed at the j-th of the 16 places around its parent
NodeAtAngle(e, node, j) ==
    [BranchNode(e, node, 0) EXCEPT !.x = node.x + Step(Cos8(j)),
                                   !.y = node.y + Step(Sin8(j))]

\* the tick of a queue of one node ended as it does when direction dir is
\* drawn, and the successor in that direction was rejected
RejectedToward(e, node, dir, nearbyNodes) ==
    /\ node.energy > 0 /\ node.textIndex < Len(Text) - 1
    /\ checkSemanticIntersection(e.field, Successor(e, node, dir, nearbyNodes),
                                 nearbyNodes)

\* what the claim says of a node whose successor was rejected: a branch at
\* the freest place if its freedom is above 0.3 and the branch passes the
\* conflict check, no new node otherwise
AvoidsAt(e, node, j, nearbyNodes, ns, queue) ==
    IF /\ FreedomAt(e, node, j, nearbyNodes) > 300
       /\ ~checkSemanticIntersection(e.field, NodeAtAngle(e, node, j), nearbyNodes)
    THEN /\ Len(queue) = 1
         /\ queue[1].x = node.x + Step(Cos8(j))
         /\ queue[1].y = node.y + Step(Sin8(j))
         /\ queue[1].parent = node.id
    ELSE queue = <<>> /\ Len(ns) = Len(e.nodes)

\* C28: when the successor of a node is rejected, the avoidance branch is
\* made at the freest of the 16 places around the node if that freedom is
\* above 0.3 and the branch passes the conflict check; otherwise the node
\* gets no successor and the next queue does not hold it.
C28_AvoidanceAtFreestAngle ==
    [][ret'.op = "grow" /\ ret'.ok /\ Len(growthQueue) = 1 =>
        \A dir \in GrowthDirections :
            /\ RejectedToward(AfterReading(StartTick(Engine), growthQueue[1]),
                              growthQueue[1], dir,
                              NearbyNodes(StartTick(Engine), growthQueue[1]))
            /\ nodes' = grow(Engine, <<[dir |-> dir, branch |-> FALSE]>>).nodes
            => AvoidsAt(AfterReading(StartTick(Engine), growthQueue[1]),
                        growthQueue[1],
                        FreestAngle(AfterReading(StartTick(Engine), growthQueue[1]),
                                    growthQueue[1],
                                    NearbyNodes(StartTick(Engine), growthQueue[1])),
                        NearbyNodes(StartTick(Engine), growthQueue[1]),
                        nodes', growthQueue')]_vars

\* C39: an update(item) that returns false leaves the index unchanged: when
\* the id is indexed and the new position is missing or has a non-numeric
\* or NaN coordinate, the indexed item stays in its cell, itemCount is
\* unchanged and the query cache is not cleared.
C39_FailedUpdateChangesNothing ==
    [][(ret'.op = "update" /\ ~ret'.ok) => UNCHANGED ixvars]_vars

\* C35: with growth started the queue is empty after at most Len(Text)
\* effective ticks: every queued node's textIndex is at least the number of
\* ticks made, the generation counter never passes Len(Text) and the queue
\* is empty when it gets there; a grow() on an empty queue is a no-op that
\* leaves the generation counter and everything else alone.
C35_QueueEmptiesInTextLength ==
    /\ [](/\ generation <= Len(Text)
          /\ generation = Len(Text) => growthQueue = <<>>
          /\ \A i \in 1..Len(growthQueue) : growthQueue[i].textIndex >= generation)
    /\ [][(ret'.op = "grow" /\ growthQueue = <<>>)
             => ~ret'.ok /\ UNCHANGED <<ixvars, fieldvars, enginevars>>]_vars

\* Len(Text) effective ticks were made and a further grow() did nothing
C35_Witness ==
    /\ generation = Len(Text)
    /\ growthQueue = <<>>
    /\ isGrowing
    /\ ret.op = "grow"
    /\ ~ret.ok

\* the connections that end at the node with the id `id`
ConnectionsTo(id) == {i \in 1..Len(connections) : connections[i].to = id}

\* C36: as long as no memory cleanup has dropped a node (every node object
\* made is still in the list) the graph is a forest rooted at the seeds:
\* every node that is no seed has exactly one incoming connection, it comes
\* from the node its parent field names, that parent is one generation
\* older and lists the node's id among its children, and there are as many
\* connections as nodes that are no seeds.
C36_ForestUntilCleanup ==
    Len(nodes) = created =>
        /\ Len(connections) = Max(0, Len(nodes) - seedCount)
        /\ \A i \in 1..Len(nodes) :
              nodes[i].parent # None =>
                  /\ Cardinality(ConnectionsTo(nodes[i].id)) = 1
                  /\ \A c \in ConnectionsTo(nodes[i].id) :
                        connections[c].from = nodes[i].parent
                  /\ \E p \in 1..Len(nodes) :
                        /\ nodes[p].id = nodes[i].parent
                        /\ nodes[p].generation = nodes[i].generation - 1
                        /\ \E k \in 1..Len(nodes[p].children) :
                              nodes[p].children[k] = nodes[i].id

\* a successor and a semantic branch of the same parent, nothing dropped
C36_Witness ==
    /\ Len(nodes) = created
    /\ \E i, j \in 1..Len(nodes) :
          /\ i # j
          /\ nodes[i].parent # None
          /\ nodes[i].parent = nodes[j].parent

\* C34: a node gets a second child in a tick only if its main successor was
\* accepted and its energy is above 50: the first child is then the main
\* successor and the second the semantic branch.  No node has more than two
\* children, and the children of a node that is not in the queue of a tick
\* are the same after the tick and after any call other than reset.
C34_SecondSuccessorNeedsEnergy ==
    /\ [](\A i \in 1..Len(nodes) : Len(nodes[i].children) <= 2)
    /\ [][ret'.op = "grow"
            => /\ \A i \in 1..Len(growthQueue) :
                    \A ch \in ChildrenOf(nodes', growthQueue[i].serial) :
                        Len(ch) = 2 =>
                            /\ growthQueue[i].energy > 50000
                            /\ \E n \in MadeBy(nodes', created) :
                                  /\ n.id = ch[1]
                                  /\ IsSuccessorEnergy(n.energy, growthQueue[i].energy)
                            /\ \E n \in MadeBy(nodes', created) :
                                  /\ n.id = ch[2]
                                  /\ IsBranchEnergy(n.energy, growthQueue[i].energy)
               /\ \A j \in 1..Len(nodes) :
                    (\A i \in 1..Len(growthQueue) :
                        growthQueue[i].serial # nodes[j].serial)
                        => ChildrenOf(nodes', nodes[j].serial) \subseteq {nodes[j].children}]_vars
    /\ [][ret'.op \notin {"grow", "reset", "initialize"}
            => \A j \in 1..Len(nodes) :
                  ChildrenOf(nodes', nodes[j].serial) = {nodes[j].children}]_vars

\* a tick gave one node two children and a node of energy 50 one child
C34_Witness ==
    /\ ret.op = "grow"
    /\ \E i \in 1..Len(nodes) : Len(nodes[i].children) = 2
    /\ \E i \in 1..Len(nodes) :
          /\ nodes[i].energy = 50000
          /\ Len(nodes[i].children) = 1

\* C32: self-reflection runs in exactly the effective ticks whose generation
\* at the start is a multiple of the period, once, after the nodes of the
\* tick were processed: the history gains one reflection of that generation
\* and of the node list as the tick leaves it, and the params are adapted to
\* the system state it holds.  Every other tick and every no-op grow()
\* leaves the params and the history unchanged.
C32_ReflectionEveryPeriod ==
    [][ret'.op = "grow"
        => IF ret'.ok /\ generation % reflectionInterval = 0
           THEN /\ selfReflectionHistory' # <<>>
                /\ selfReflectionHistory'
                      = DropOldest(Append(selfReflectionHistory,
                                          LastReflection(selfReflectionHistory')),
                                   maxSelfReflectionHistory)
                /\ LastReflection(selfReflectionHistory').generation = generation
                /\ LastReflection(selfReflectionHistory').totalNodes = Len(nodes')
                /\ \E e \in {adaptSystemParameters(
                                Engine, LastReflection(selfReflectionHistory').systemState)} :
                      /\ semanticGravity' = e.semanticGravity
                      /\ interferenceAmplitude' = e.interferenceAmplitude
                      /\ energyDecay' = e.energyDecay
           ELSE UNCHANGED <<selfReflectionHistory, semanticGravity,
                            interferenceAmplitude, energyDecay>>]_vars

\* the tick of the generation one period after the first has reflected, in
\* a graph that has grown
C32_Witness ==
    /\ ret.op = "grow"
    /\ ret.ok
    /\ generation = reflectionInterval + 1
    /\ Len(selfReflectionHistory) = 2
    /\ selfReflectionHistory[1].generation = 0
    /\ selfReflectionHistory[2].generation = reflectionInterval
    /\ selfReflectionHistory[2].totalNodes > selfReflectionHistory[1].totalNodes

\* C31: from the default params on, semanticGravity, interferenceAmplitude
\* and energyDecay lie in [0.1, 1.0] after any number of adaptations.
C31_ParamsWithinLimits ==
    /\ 100 <= semanticGravity /\ semanticGravity <= 1000
    /\ 100 <= interferenceAmplitude /\ interferenceAmplitude <= 1000
    /\ 100 <= energyDecay /\ energyDecay <= 1000

\* an adaptation that would have raised semanticGravity above 1 and lowered
\* energyDecay below 0.1 left them at the limits
C31_Witness ==
    /\ ret.op = "adaptSystemParameters"
    /\ ret.state.semanticDensity < 300
    /\ ret.state.cognitiveLoad < 300
    /\ semanticGravity = 1000
    /\ energyDecay = 100

\* the newest `cap` entries of a list, in the order of the list
Newest(list, cap) ==
    [i \in 1..Min(cap, Len(list)) |-> list[Len(list) - Min(cap, Len(list)) + i]]

\* C33: the lists respect their caps, and a push that would exceed a cap
\* drops the oldest entries: each list holds its most recent entries in the
\* order they were pushed.
C33_ListsKeepNewest ==
    /\ [](/\ Len(readingTrajectory) <= maxTrajectoryLength
          /\ Len(collocationFields) <= maxCollocationFields
          /\ Len(emergentPatterns) <= maxEmergentPatterns
          /\ Len(selfReflectionHistory) <= maxSelfReflectionHistory)
    /\ [][/\ ret'.op = "recordReadingTrajectory"
              => readingTrajectory'
                    = Newest(readingTrajectory \o ret'.pushed, maxTrajectoryLength)
          /\ ret'.op = "addCollocationFields"
              => collocationFields'
                    = Newest(collocationFields \o ret'.pushed, maxCollocationFields)
          /\ ret'.op = "updateEmergentPatterns"
              => emergentPatterns'
                    = Newest(emergentPatterns \o ret'.pushed, maxEmergentPatterns)
          /\ ret'.op = "performSelfReflection"
              => selfReflectionHistory'
                    = Newest(selfReflectionHistory \o ret'.pushed,
                             maxSelfReflectionHistory)
          /\ ret'.op = "performMemoryCleanup" => UNCHANGED auxvars]_vars

\* a trajectory point was pushed to the full list, which dropped its
\* oldest point
C33_Witness ==
    /\ ret.op = "recordReadingTrajectory"
    /\ ret.dropped = 1
    /\ Len(readingTrajectory) = maxTrajectoryLength
    /\ readingTrajectory[maxTrajectoryLength] = ret.pushed[1]

\* new OrganicLayout(Text, 800, 600): the default params, empty lists, an
\* empty index and a field that has analysed the text
NewEngine ==
    EngineState(<<>>, <<>>, <<>>, 0, FALSE, 300, 0, 0, EmptyIndex,
                analyzeSemanticStructure(EmptyField, Text), 0)
        @@ EngineAux(600, 400, <<>>, <<>>, <<>>, <<>>)

\* what an engine holds apart from the counters of the model
EngineContents(e) ==
    <<e.nodes, e.connections, e.growthQueue, e.generation, e.isGrowing,
      e.index.grid, e.index.itemCount,
      e.energyDecay, e.semanticGravity, e.interferenceAmplitude,
      e.field.semanticGraph, e.field.collocationMatrix, e.field.cleanupCounter,
      e.readingTrajectory, e.collocationFields, e.emergentPatterns,
      e.selfReflectionHistory>>

\* C38: after reset() the engine is in the state of a newly constructed
\* engine after initialize(), for one of the seed placements: the graph,
\* the index and the lists hold the seeds alone, the params have their
\* default values and the field holds the analysis of the text.
C38_ResetIsNewEngine ==
    ret.op = "reset" =>
        \E radius \in SeedRadii :
            EngineContents(Engine) = EngineContents(initialize(NewEngine, radius))

\* the similarities stored in the association graph
StoredSimilarities ==
    UNION {{semanticGraph[i].conns[w] : w \in DOMAIN semanticGraph[i].conns} :
              i \in 1..Len(semanticGraph)}

\* C37: after analyses alone every stored similarity lies in (0.3, 1], a
\* semantic distance is 1 or lies in [0, 0.7), identifySemanticBridges
\* returns no connection and no 'semantic_bridge' pattern is recorded.
C37_NoSemanticBridge ==
    /\ \A similarity \in StoredSimilarities : 300 < similarity /\ similarity <= 1000
    /\ ret.op = "identifySemanticBridges"
          => /\ ret.gap = 1000 \/ (0 <= ret.gap /\ ret.gap < 700)
             /\ ret.bridges = <<>>
    /\ \A i \in 1..Len(emergentPatterns) : emergentPatterns[i].type # "semantic_bridge"

\* the field was asked for the bridge of a connection between two words
\* whose similarity an analysis has stored
C37_Witness ==
    /\ ret.op = "identifySemanticBridges"
    /\ ret.gap < 700
    /\ Len(semanticGraph) > 1

=============================================================================
